---------------------------- MODULE Spec2Model ----------------------------
(***************************************************************************)
(* A model of the market-review assistant: the resilient data-fetch        *)
(* wrapper and the snapshot assembly of MarketAnalyzer                      *)
(* (src/src/market_analyzer.py), and the provider state and retry loops of *)
(* GeminiAnalyzer (src/analyzer.py).                                        *)
(*                                                                          *)
(* Every function invocation is a frame: a record holding the position in  *)
(* the function (pc), its locals and its return value.  The calls a frame  *)
(* makes to the outside (data provider, generative provider, time.sleep)   *)
(* are recorded in its trace, in the order the code makes them.            *)
(***************************************************************************)
EXTENDS Integers, Sequences, FiniteSets, TLC

VARIABLES
    ak,         \* frame of MarketAnalyzer._call_akshare_with_retry
    oa,         \* frame of GeminiAnalyzer._call_openai_api
    an,         \* the GeminiAnalyzer instance (its fields, and what __init__ attempted)
    rq,         \* frame of GeminiAnalyzer._call_api_with_retry
    ov,         \* frame of MarketAnalyzer.get_market_overview, with its MarketOverview
    gr,         \* frame of MarketAnalyzer.generate_market_review
    clock,      \* the wall clock, in minutes (what datetime.now() reads)
    tmpl_calls, \* every call of _generate_template_review made so far: inputs and output
    mg,         \* frame of MarketAnalyzer.get_margin_data
    sn          \* frame of MarketAnalyzer.search_market_news

vars == <<ak, oa, an, rq, ov, gr, clock, tmpl_calls, mg, sn>>

-----------------------------------------------------------------------------
(* Bounds of the model *)

\* the largest attempts / gemini_max_retries argument tried
MaxAttempts == 4

-----------------------------------------------------------------------------
(* Helpers *)

Min(a, b) == IF a <= b THEN a ELSE b

Last(s) == s[Len(s)]

\* the events of a trace that are calls of the wrapped operation
CallsOf(trace) == SelectSeq(trace, LAMBDA ev : ev.op = "call")

\* the events of a trace that are time.sleep calls
SleepsOf(trace) == SelectSeq(trace, LAMBDA ev : ev.op = "sleep")

\* every call the wrapped operation received failed
AllFailed(trace) == \A i \in 1..Len(trace) : trace[i].op = "call" => ~trace[i].ok

\* the number of calls the wrapped operation received
NumCalls(trace) == Len(CallsOf(trace))

\* position in the trace of the k-th call (0 when there is none)
CallPos(trace, k) ==
    LET idx == {i \in 1..Len(trace) :
                    /\ trace[i].op = "call"
                    /\ Cardinality({j \in 1..i : trace[j].op = "call"}) = k}
    IN IF idx = {} THEN 0 ELSE CHOOSE i \in idx : TRUE

RECURSIVE SumDelays(_, _, _)
SumDelays(trace, lo, hi) ==
    IF lo > hi THEN 0
    ELSE (IF trace[lo].op = "sleep" THEN trace[lo].d ELSE 0) + SumDelays(trace, lo + 1, hi)

\* the time slept between the (k-1)-th call (or the start) and the k-th call
DelayBefore(trace, k) ==
    SumDelays(trace, CallPos(trace, k - 1) + 1, CallPos(trace, k) - 1)

CallEv(ok) == [op |-> "call", ok |-> ok, d |-> 0]
SleepEv(d) == [op |-> "sleep", ok |-> FALSE, d |-> d]

\* errors an external call can raise
Errors == {"timeout", "http_429", "refused"}

\* the values a wrapped operation can return when it is called directly
Values == {"v1", "v2"}

\* how a frame that returns a data table ends: not yet, return v, return None, raise e
NoRet == [kind |-> "pending", val |-> "-", err |-> "-"]
RetValue(v) == [kind |-> "value", val |-> v, err |-> "-"]
RetNone == [kind |-> "None", val |-> "-", err |-> "-"]
RetRaise(e) == [kind |-> "raise", val |-> "-", err |-> e]

\* a text is a sequence of characters; how a frame that returns text ends
NoText == [kind |-> "pending", val |-> <<>>, err |-> "-"]
TextValue(t) == [kind |-> "value", val |-> t, err |-> "-"]
TextRaise(e) == [kind |-> "raise", val |-> <<>>, err |-> e]

-----------------------------------------------------------------------------
(* MarketAnalyzer._call_akshare_with_retry *)

IdleAk == [pc |-> "idle", fn |-> "-", attempts |-> 0, attempt |-> 0,
           trace |-> <<>>, last_error |-> "-", thrown |-> "-", final_log |-> "-",
           ret |-> NoRet]

\* a loop that starts counting at 0: one call too many
EnterAkFromZero(fn, attempts) ==
    [pc |-> "run", fn |-> fn, attempts |-> attempts, attempt |-> 0,
     trace |-> <<>>, last_error |-> "-", thrown |-> "-", final_log |-> "-",
     ret |-> NoRet]

\* the frame on entry: last_error = None, attempt = 1 (range(1, attempts + 1))
EnterAk(fn, attempts) ==
    [pc |-> "run", fn |-> fn, attempts |-> attempts, attempt |-> 1,
     trace |-> <<>>, last_error |-> "-", thrown |-> "-", final_log |-> "-",
     ret |-> NoRet]

\* time.sleep(min(2 ** attempt, 5))
AkBackoff(attempt) == Min(2 ^ attempt, 5)

\* a loop that goes on to the next attempt after a call that returned
AkSuccessKeepsTrying(f, v) ==
    [f EXCEPT !.trace = Append(@, CallEv(TRUE)), !.attempt = @ + 1]

\* try: return fn()
AkSuccess(f, v) ==
    [f EXCEPT !.pc = "done",
              !.trace = Append(@, CallEv(TRUE)),
              !.ret = RetValue(v)]

\* except Exception as e: last_error = e; warn; sleep unless this was the last attempt
AkFailureTrace(f) ==
    IF f.attempt < f.attempts
    THEN f.trace \o <<CallEv(FALSE), SleepEv(AkBackoff(f.attempt))>>
    ELSE Append(f.trace, CallEv(FALSE))

\* a handler that keeps the first error instead of the last
AkFailureKeepsFirst(f, e) ==
    [f EXCEPT !.trace = AkFailureTrace(f),
              !.last_error = IF @ = "-" THEN e ELSE @,
              !.attempt = @ + 1]

AkFailure(f, e) ==
    [f EXCEPT !.trace = AkFailureTrace(f),
              !.last_error = e,
              !.attempt = @ + 1]

\* after the loop: logger.error(... last_error); return None
AkAfterLoopRet(f) == RetNone

AkAfterLoop(f) ==
    [f EXCEPT !.pc = "done", !.final_log = f.last_error, !.ret = AkAfterLoopRet(f)]

-----------------------------------------------------------------------------
(* GeminiAnalyzer._call_openai_api *)

\* config.gemini_retry_delay values tried (seconds)
BaseDelays == {1, 5, 40}

\* the texts a provider can return: with content, padded with blanks, blank only
ProviderTexts == {<<"r">>, <<" ", "r", " ">>, <<" ">>}

\* what chat.completions.create can hand back when it does not raise: a text, or
\* nothing (no response, no choices, empty content), which <<>> stands for
Completions == ProviderTexts \cup {<<>>}

\* is_rate_limit: '429' in error_str or 'rate' in ... or 'quota' in ...
IsRateLimit(e) == e \in {"http_429"}

IdleOa == [pc |-> "idle", max_retries |-> 0, base_delay |-> 0, attempt |-> 0,
           trace |-> <<>>, log |-> <<>>, ret |-> NoText]

\* the frame on entry: attempt = 0 (range(max_retries))
EnterOa(max_retries, base_delay) ==
    [pc |-> "run", max_retries |-> max_retries, base_delay |-> base_delay,
     attempt |-> 0, trace |-> <<>>, log |-> <<>>, ret |-> NoText]

\* a delay that is never capped
RetryDelayUncapped(base_delay, attempt) == base_delay * (2 ^ (attempt - 1))

\* delay = base_delay * (2 ** (attempt - 1)); delay = min(delay, 60)
RetryDelay(base_delay, attempt) == Min(base_delay * (2 ^ (attempt - 1)), 60)

\* if attempt > 0: time.sleep(delay); then the chat-completion call
OaCallTrace(f, ok) ==
    IF f.attempt > 0
    THEN f.trace \o <<SleepEv(RetryDelay(f.base_delay, f.attempt)), CallEv(ok)>>
    ELSE Append(f.trace, CallEv(ok))

\* response.choices[0].message.content is non-empty: return it
OaSuccess(f, text) ==
    [f EXCEPT !.pc = "done", !.trace = OaCallTrace(f, TRUE), !.ret = TextValue(text)]

\* the warning of an attempt: its wording depends on is_rate_limit, and it
\* quotes the error
OaWarning(e) == [wording |-> IF IsRateLimit(e) THEN "rate_limit" ELSE "failed", err |-> e]

\* a handler that gives up at once on an error it does not class as a rate limit
OaFailureRetriesRateLimitOnly(f, e) ==
    IF f.attempt = f.max_retries - 1 \/ ~IsRateLimit(e)
    THEN [f EXCEPT !.pc = "done", !.trace = OaCallTrace(f, FALSE),
                   !.log = Append(f.log, OaWarning(e)), !.ret = TextRaise(e)]
    ELSE [f EXCEPT !.trace = OaCallTrace(f, FALSE), !.log = Append(f.log, OaWarning(e)),
                   !.attempt = @ + 1]

\* a handler that keeps the first error and raises that one in the end
OaFailureRaisesFirst(f, e) ==
    IF f.attempt = f.max_retries - 1
    THEN [f EXCEPT !.pc = "done", !.trace = OaCallTrace(f, FALSE),
                   !.log = Append(f.log, OaWarning(e)),
                   !.ret = TextRaise(IF f.log = <<>> THEN e ELSE f.log[1].err)]
    ELSE [f EXCEPT !.trace = OaCallTrace(f, FALSE), !.log = Append(f.log, OaWarning(e)),
                   !.attempt = @ + 1]

\* except Exception as e: warn (the wording depends on is_rate_limit);
\* if attempt == max_retries - 1: raise
OaFailure(f, e) ==
    LET logged == Append(f.log, OaWarning(e))
    IN IF f.attempt = f.max_retries - 1
       THEN [f EXCEPT !.pc = "done", !.trace = OaCallTrace(f, FALSE),
                      !.log = logged, !.ret = TextRaise(e)]
       ELSE [f EXCEPT !.trace = OaCallTrace(f, FALSE), !.log = logged,
                      !.attempt = @ + 1]

\* after the loop: raise Exception("... 已达最大重试次数")
OaAfterLoop(f) == [f EXCEPT !.pc = "done", !.ret = TextRaise("max_retries_reached")]

\* a response check that hands back whatever content there is
OaRespondReturnsAnyContent(f, content) == OaSuccess(f, content)

\* if response and response.choices and response.choices[0].message.content:
\*     return it; else: raise ValueError("OpenAI API 返回空响应")
OaRespond(f, content) ==
    IF content # <<>> THEN OaSuccess(f, content) ELSE OaFailure(f, "empty_response")

\* one iteration of the for loop
OaAttempt ==
    /\ oa.pc = "run"
    /\ oa.attempt < oa.max_retries
    /\ \/ \E c \in Completions : oa' = OaRespond(oa, c)
       \/ \E e \in Errors : oa' = OaFailure(oa, e)
    /\ UNCHANGED <<ak, an, rq, ov, gr, clock, tmpl_calls, mg, sn>>

\* range(max_retries) is empty or used up without a return or a raise
OaExhausted ==
    /\ oa.pc = "run"
    /\ oa.attempt >= oa.max_retries
    /\ oa' = OaAfterLoop(oa)
    /\ UNCHANGED <<ak, an, rq, ov, gr, clock, tmpl_calls, mg, sn>>

-----------------------------------------------------------------------------
(* Provider tables.  A cell is a number, a text that is no number, None or NaN. *)
(* Percentages and prices are in hundredths (9.9% is 990), amounts in yuan.    *)
(* Column keys: code 代码, current 最新价, change 涨跌额, change_pct 涨跌幅,    *)
(* open 今开, high 最高, low 最低, prev_close 昨收, volume 成交量,             *)
(* amount 成交额, name 板块名称.                                               *)

Num(n) == [t |-> "num", n |-> n]
StrCell == [t |-> "str", n |-> 0]
NoneCell == [t |-> "none", n |-> 0]
NaN == [t |-> "nan", n |-> 0]

\* pd.to_numeric(cell, errors='coerce')
ToNumeric(c) == IF c.t = "num" THEN c ELSE NaN

\* row.get(col, 0)
RowGet(columns, row, col) == IF col \in columns THEN row[col] ELSE Num(0)

\* x or 0: None, 0 and 0.0 are falsy; a text and NaN are truthy
OrZero(c) == IF c.t = "none" \/ (c.t = "num" /\ c.n = 0) THEN Num(0) ELSE c

\* float(x) raises ValueError on a text that is no number
FloatRaises(c) == c.t = "str"

\* s is a contiguous part of t (str.contains on codes, which hold no regex characters)
Contains(t, s) ==
    \E i \in 0..(Len(t) - Len(s)) : SubSeq(t, i + 1, i + Len(s)) = s

\* MAIN_INDICES, in the order of the dict; names: 上证指数, 深证成指, 创业板指,
\* 科创50, 上证50, 沪深300
MAIN_INDICES ==
    << [code |-> <<"sh", "000001">>, name |-> "shangzheng"],
       [code |-> <<"sz", "399001">>, name |-> "shenzheng"],
       [code |-> <<"sz", "399006">>, name |-> "chuangye"],
       [code |-> <<"sh", "000688">>, name |-> "kechuang50"],
       [code |-> <<"sh", "000016">>, name |-> "shangzheng50"],
       [code |-> <<"sh", "000300">>, name |-> "hushen300"] >>

QuoteColumns ==
    {"current", "change", "change_pct", "open", "high", "low", "prev_close",
     "volume", "amount"}

\* an index-quote row with every column
QuoteRow(code, current, change_pct, high, low, prev_close) ==
    [code |-> code, current |-> Num(current), change |-> Num(current - prev_close),
     change_pct |-> Num(change_pct), open |-> Num(prev_close), high |-> Num(high),
     low |-> Num(low), prev_close |-> Num(prev_close), volume |-> Num(1000),
     amount |-> Num(500000000)]

\* the tables ak.stock_zh_index_spot_sina can return
IndexTable(id) ==
    CASE id = "idx_full" ->
            [columns |-> QuoteColumns \cup {"code"},
             rows |-> << QuoteRow(<<"sh", "000001">>, 310000, 120, 312000, 306000, 306300),
                         QuoteRow(<<"sz", "399001">>, 980000, -50, 990000, 975000, 980500),
                         QuoteRow(<<"bj", "899050">>, 100000, 0, 100000, 100000, 100000) >>]
      [] id = "idx_down" ->
            [columns |-> QuoteColumns \cup {"code"},
             rows |-> << QuoteRow(<<"sh", "000001">>, 300000, -200, 306000, 299000, 306100),
                         QuoteRow(<<"x", "sz", "399006">>, 200000, 30, 201000, 199000, 199940) >>]
      [] id = "idx_few_columns" ->
            [columns |-> {"code", "current"},
             rows |-> << [code |-> <<"sh", "000300">>, current |-> Num(390000)] >>]
      [] OTHER -> [columns |-> {"code"} \cup QuoteColumns, rows |-> <<>>]

IndexTables == {"idx_full", "idx_down", "idx_few_columns", "idx_empty"}

\* the tables ak.stock_zh_a_spot_em can return
StatTable(id) ==
    CASE id = "stat_mixed" ->
            [columns |-> {"change_pct", "amount"},
             rows |-> << [change_pct |-> Num(1000), amount |-> Num(300000000)],
                         [change_pct |-> Num(-995), amount |-> Num(200000000)],
                         [change_pct |-> Num(0), amount |-> Num(100000000)],
                         [change_pct |-> Num(500), amount |-> Num(400000000)] >>]
      [] id = "stat_up" ->
            [columns |-> {"change_pct", "amount"},
             rows |-> << [change_pct |-> Num(250), amount |-> Num(700000000)],
                         [change_pct |-> StrCell, amount |-> NoneCell],
                         [change_pct |-> Num(990), amount |-> Num(100000000)] >>]
      [] OTHER -> [columns |-> {"change_pct", "amount"}, rows |-> <<>>]

StatTables == {"stat_mixed", "stat_up", "stat_empty"}

SectorRow(name, change_pct) == [name |-> name, change_pct |-> change_pct]

\* the tables ak.stock_board_industry_name_em can return
SectorTable(id) ==
    CASE id = "sec_seven" ->
            [columns |-> {"name", "change_pct"},
             rows |-> << SectorRow("bank", Num(120)), SectorRow("coal", Num(-310)),
                         SectorRow("chip", Num(450)), SectorRow("wine", Num(-20)),
                         SectorRow("auto", Num(260)), SectorRow("steel", Num(-140)),
                         SectorRow("power", Num(30)) >>]
      [] id = "sec_three" ->
            [columns |-> {"name", "change_pct"},
             rows |-> << SectorRow("bank", Num(-50)), SectorRow("chip", NaN),
                         SectorRow("auto", Num(70)), SectorRow("coal", Num(10)) >>]
      [] OTHER -> [columns |-> {"name", "change_pct"}, rows |-> <<>>]

SectorTables == {"sec_seven", "sec_three", "sec_empty"}

\* df.empty
IsEmpty(table) == Len(table.rows) = 0

-----------------------------------------------------------------------------
(* MarketOverview and the three fetch steps of get_market_overview *)

\* attempts=9 at the three call sites of _call_akshare_with_retry
FetchAttempts == 9

\* MarketOverview(date=today): every other field at its default
MarketOverview(date) ==
    [date |-> date, indices |-> <<>>,
     up_count |-> 0, down_count |-> 0, flat_count |-> 0,
     limit_up_count |-> 0, limit_down_count |-> 0,
     total_amount |-> 0, north_flow |-> 0,
     top_sectors |-> <<>>, bottom_sectors |-> <<>>]

\* datetime.now().strftime('%Y-%m-%d'): the day the clock is in
Today(now) == now \div 1440

\* float(row.get(col, 0) or 0)
QuoteField(table, row, col) == OrZero(RowGet(table.columns, row, col))

\* (d * 10^digits) \div m for m > 0, by long division: no product leaves the
\* range of the integers at hand
RECURSIVE ScaledQuotient(_, _, _)
ScaledQuotient(d, m, digits) ==
    IF digits = 0 THEN d \div m
    ELSE (d \div m) * (10 ^ digits) + ScaledQuotient((d % m) * 10, m, digits - 1)

\* (index.high - index.low) / index.prev_close * 100 when prev_close > 0, in
\* hundredths of a percent, rounded down
Amplitude(high, low, prev_close) ==
    IF prev_close.t = "num" /\ prev_close.n > 0
    THEN IF high.t = "num" /\ low.t = "num"
         THEN Num(ScaledQuotient(high.n - low.n, prev_close.n, 4))
         ELSE NaN
    ELSE Num(0)

\* MarketIndex(code=code, name=name, current=..., ...), then the amplitude
MarketIndex(entry, table, row) ==
    [code |-> entry.code, name |-> entry.name,
     current |-> QuoteField(table, row, "current"),
     change |-> QuoteField(table, row, "change"),
     change_pct |-> QuoteField(table, row, "change_pct"),
     open |-> QuoteField(table, row, "open"),
     high |-> QuoteField(table, row, "high"),
     low |-> QuoteField(table, row, "low"),
     prev_close |-> QuoteField(table, row, "prev_close"),
     volume |-> QuoteField(table, row, "volume"),
     amount |-> QuoteField(table, row, "amount"),
     amplitude |-> Amplitude(QuoteField(table, row, "high"),
                             QuoteField(table, row, "low"),
                             QuoteField(table, row, "prev_close"))]

\* positions of the rows df[df['代码'] == code], or else of the rows
\* df[df['代码'].str.contains(code)]
MatchingRows(table, code) ==
    LET exact == {i \in 1..Len(table.rows) : table.rows[i].code = code}
    IN IF exact # {}
       THEN exact
       ELSE {i \in 1..Len(table.rows) : Contains(table.rows[i].code, code)}

\* the loop over MAIN_INDICES from entry i on; an exception (a missing 代码
\* column, a quote that float() rejects) ends it with the indices built so far
RECURSIVE BuildIndices(_, _, _)
BuildIndices(table, i, indices) ==
    IF i > Len(MAIN_INDICES) THEN indices
    ELSE IF "code" \notin table.columns THEN indices
    ELSE LET found == MatchingRows(table, MAIN_INDICES[i].code)
         IN IF found = {} THEN BuildIndices(table, i + 1, indices)
            ELSE LET row == table.rows[CHOOSE r \in found : \A q \in found : r <= q]
                 IN IF \E col \in QuoteColumns :
                            FloatRaises(QuoteField(table, row, col))
                    THEN indices
                    ELSE BuildIndices(table, i + 1,
                                      Append(indices, MarketIndex(MAIN_INDICES[i], table, row)))

\* _get_main_indices, given what the wrapper returned; never raises: the whole
\* body is inside try/except Exception
_get_main_indices(ret) ==
    IF ret.kind # "value" THEN [raised |-> FALSE, indices |-> <<>>]
    ELSE LET df == ret.val
         IN IF IsEmpty(df) THEN [raised |-> FALSE, indices |-> <<>>]
            ELSE [raised |-> FALSE, indices |-> BuildIndices(df, 1, <<>>)]

\* a conversion that keeps every row (a cell that is no number reads as 0)
NumericRowsKeepsAll(table, col) == table.rows

\* the rows of a table whose column col is a number after pd.to_numeric
NumericRows(table, col) ==
    SelectSeq(table.rows, LAMBDA row : ToNumeric(row[col]).t = "num")

\* a count that takes every comparison but == as >=
CountRowsAtLeast(rows, col, cmp, k) ==
    Cardinality({i \in 1..Len(rows) :
        IF cmp = "==" THEN rows[i][col].n = k ELSE rows[i][col].n >= k})

\* len(df[df[col] <cmp> k]) for the five comparisons of the breadth statistics
CountRows(rows, col, cmp, k) ==
    Cardinality({i \in 1..Len(rows) :
        CASE cmp = ">" -> rows[i][col].n > k
          [] cmp = "<" -> rows[i][col].n < k
          [] cmp = "==" -> rows[i][col].n = k
          [] cmp = ">=" -> rows[i][col].n >= k
          [] OTHER -> rows[i][col].n <= k})

RECURSIVE SumColumn(_, _)
SumColumn(rows, col) ==
    IF rows = <<>> THEN 0 ELSE Head(rows)[col].n + SumColumn(Tail(rows), col)

\* breadth counts whose limit thresholds are strict: a stock at exactly +9.9% or
\* -9.9% is not counted as limit-up / limit-down
WithBreadthStrictLimits(overview, df) ==
    IF "change_pct" \notin df.columns THEN overview
    ELSE LET rows == NumericRows(df, "change_pct")
         IN [overview EXCEPT
                !.up_count = CountRows(rows, "change_pct", ">", 0),
                !.down_count = CountRows(rows, "change_pct", "<", 0),
                !.flat_count = CountRows(rows, "change_pct", "==", 0),
                !.limit_up_count = CountRows(rows, "change_pct", ">", 990),
                !.limit_down_count = CountRows(rows, "change_pct", "<", -990)]

\* the breadth counts, when the table has the 涨跌幅 column
WithBreadth(overview, df) ==
    IF "change_pct" \notin df.columns THEN overview
    ELSE LET rows == NumericRows(df, "change_pct")
         IN [overview EXCEPT
                !.up_count = CountRows(rows, "change_pct", ">", 0),
                !.down_count = CountRows(rows, "change_pct", "<", 0),
                !.flat_count = CountRows(rows, "change_pct", "==", 0),
                !.limit_up_count = CountRows(rows, "change_pct", ">=", 990),
                !.limit_down_count = CountRows(rows, "change_pct", "<=", -990)]

\* total_amount = df['成交额'].sum() / 1e8 (the sum skips NaN), when the table
\* has the 成交额 column
WithAmount(overview, df) ==
    IF "amount" \notin df.columns THEN overview
    ELSE [overview EXCEPT
            !.total_amount = SumColumn(NumericRows(df, "amount"), "amount") \div 100000000]

\* a statistics step whose amount block sits inside the 涨跌幅 block
MarketStatisticsNested(overview, ret) ==
    IF ret.kind # "value" THEN [raised |-> FALSE, overview |-> overview]
    ELSE LET df == ret.val
         IN IF IsEmpty(df) \/ "change_pct" \notin df.columns
            THEN [raised |-> FALSE, overview |-> overview]
            ELSE [raised |-> FALSE, overview |-> WithAmount(WithBreadth(overview, df), df)]

\* _get_market_statistics, given what the wrapper returned; never raises
_get_market_statistics(overview, ret) ==
    IF ret.kind # "value" THEN [raised |-> FALSE, overview |-> overview]
    ELSE LET df == ret.val
         IN IF IsEmpty(df) THEN [raised |-> FALSE, overview |-> overview]
            ELSE [raised |-> FALSE, overview |-> WithAmount(WithBreadth(overview, df), df)]

\* a pick that takes the largest value whichever end is asked for
NextExtremeLargestOnly(rows, left, largest) ==
    CHOOSE i \in left : \A j \in left :
        rows[i].change_pct.n > rows[j].change_pct.n
        \/ (rows[i].change_pct.n = rows[j].change_pct.n /\ i <= j)

\* a selection that prefers the latest row among equals
NextExtremeLatestAmongEquals(rows, left, largest) ==
    CHOOSE i \in left : \A j \in left :
        IF largest
        THEN rows[i].change_pct.n > rows[j].change_pct.n
             \/ (rows[i].change_pct.n = rows[j].change_pct.n /\ i >= j)
        ELSE rows[i].change_pct.n < rows[j].change_pct.n
             \/ (rows[i].change_pct.n = rows[j].change_pct.n /\ i >= j)

\* the position (in rows) of the row nlargest / nsmallest takes next: the extreme
\* value, the earliest row among equals
NextExtreme(rows, left, largest) ==
    CHOOSE i \in left : \A j \in left :
        IF largest
        THEN rows[i].change_pct.n > rows[j].change_pct.n
             \/ (rows[i].change_pct.n = rows[j].change_pct.n /\ i <= j)
        ELSE rows[i].change_pct.n < rows[j].change_pct.n
             \/ (rows[i].change_pct.n = rows[j].change_pct.n /\ i <= j)

\* df.nlargest(n, col) / df.nsmallest(n, col), as positions in rows
\* (a function of the rows, of what is left of them and of the number still to
\* take, so that each step works on values)
TakeExtremes(rows, all, n, largest) ==
    LET take[rs \in {rows}, left \in SUBSET all, k \in 0..n] ==
            IF k = 0 \/ left = {} THEN <<>>
            ELSE LET i == NextExtreme(rs, left, largest)
                 IN <<i>> \o take[rs, left \ {i}, k - 1]
    IN take[rows, all, n]

\* [{'name': row['板块名称'], 'change_pct': row[change_col]} for _, row in ...]
SectorList(rows, picks) ==
    [k \in 1..Len(picks) |->
        [name |-> rows[picks[k]].name, change_pct |-> rows[picks[k]].change_pct.n]]

\* a sector step without its guards: a fetch that handed back no table raises
SectorRankingsUnguarded(overview, ret) ==
    IF ret.kind # "value" THEN [raised |-> TRUE, overview |-> overview]
    ELSE LET rows == NumericRows(ret.val, "change_pct")
             all == 1..Len(rows)
         IN [raised |-> FALSE,
             overview |-> [overview EXCEPT
                !.top_sectors = SectorList(rows, TakeExtremes(rows, all, 5, TRUE)),
                !.bottom_sectors = SectorList(rows, TakeExtremes(rows, all, 5, FALSE))]]

\* _get_sector_rankings, given what the wrapper returned; never raises.  A table
\* without the 板块名称 column raises KeyError before top_sectors is assigned.
_get_sector_rankings(overview, ret) ==
    IF ret.kind # "value" THEN [raised |-> FALSE, overview |-> overview]
    ELSE LET df == ret.val
         IN IF IsEmpty(df) \/ "change_pct" \notin df.columns \/ "name" \notin df.columns
            THEN [raised |-> FALSE, overview |-> overview]
            ELSE LET rows == NumericRows(df, "change_pct")
                     all == 1..Len(rows)
                 IN [raised |-> FALSE,
                     overview |-> [overview EXCEPT
                        !.top_sectors = SectorList(rows, TakeExtremes(rows, all, 5, TRUE)),
                        !.bottom_sectors = SectorList(rows, TakeExtremes(rows, all, 5, FALSE))]]

-----------------------------------------------------------------------------
(* MarketAnalyzer.get_market_overview *)

IdleOv == [pc |-> "idle", overview |-> MarketOverview(0), fetch_log |-> <<>>, raised |-> FALSE]

\* what a fetch step did: the wrapper was entered for fn, fn was called at least
\* once, and the wrapper handed back a table (val) or None
Fetched(f) ==
    [fn |-> f.fn, called |-> NumCalls(f.trace) >= 1, ok |-> f.ret.kind = "value",
     val |-> f.ret.val]

\* what fn can return on success
FnValues(fn) ==
    CASE fn = "stock_zh_index_spot_sina" -> {IndexTable(id) : id \in IndexTables}
      [] fn = "stock_zh_a_spot_em" -> {StatTable(id) : id \in StatTables}
      [] fn = "stock_board_industry_name_em" -> {SectorTable(id) : id \in SectorTables}
      [] OTHER -> Values

\* one iteration of the for loop; thrown is what fn() raised in it, as the
\* provider saw it
AkAttempt ==
    /\ ak.pc = "run"
    /\ ak.attempt <= ak.attempts
    /\ \/ \E v \in FnValues(ak.fn) : ak' = AkSuccess(ak, v)
       \/ \E e \in Errors : ak' = [AkFailure(ak, e) EXCEPT !.thrown = e]
    /\ UNCHANGED <<oa, an, rq, ov, gr, clock, tmpl_calls, mg, sn>>

\* the loop has run out of attempts
AkExhausted ==
    /\ ak.pc = "run"
    /\ ak.attempt > ak.attempts
    /\ ak' = AkAfterLoop(ak)
    /\ UNCHANGED <<oa, an, rq, ov, gr, clock, tmpl_calls, mg, sn>>


\* today = datetime.now().strftime('%Y-%m-%d'); overview = MarketOverview(date=today);
\* then step 1 enters the wrapper for the index quotes
GetMarketOverview ==
    /\ ov.pc = "idle"
    /\ ov' = [pc |-> "indices", overview |-> MarketOverview(Today(clock)),
              fetch_log |-> <<>>, raised |-> FALSE]
    /\ ak' = EnterAk("stock_zh_index_spot_sina", FetchAttempts)
    /\ UNCHANGED <<oa, an, rq, gr, clock, tmpl_calls, mg, sn>>

\* a step has ended: an exception it let out ends get_market_overview, otherwise the
\* next step begins
AfterStep(f, raised, overview, next_pc) ==
    IF raised
    THEN [f EXCEPT !.pc = "done", !.raised = TRUE, !.fetch_log = Append(@, Fetched(ak))]
    ELSE [f EXCEPT !.pc = next_pc, !.overview = overview,
                   !.fetch_log = Append(@, Fetched(ak))]

\* the frame of the wrapper for the step that follows (none after the last one or
\* after an exception)
NextFetch(raised, fn) == IF raised \/ fn = "-" THEN IdleAk ELSE EnterAk(fn, FetchAttempts)

\* 1. overview.indices = self._get_main_indices(); 2. enters the wrapper for the
\* full-market quotes
OvMainIndices ==
    /\ ov.pc = "indices"
    /\ ak.pc = "done"
    /\ LET r == _get_main_indices(ak.ret)
       IN /\ ov' = AfterStep(ov, r.raised, [ov.overview EXCEPT !.indices = r.indices],
                             "statistics")
          /\ ak' = NextFetch(r.raised, "stock_zh_a_spot_em")
    /\ UNCHANGED <<oa, an, rq, gr, clock, tmpl_calls, mg, sn>>

\* 2. self._get_market_statistics(overview); 3. enters the wrapper for the sector
\* quotes
OvMarketStatistics ==
    /\ ov.pc = "statistics"
    /\ ak.pc = "done"
    /\ LET r == _get_market_statistics(ov.overview, ak.ret)
       IN /\ ov' = AfterStep(ov, r.raised, r.overview, "sectors")
          /\ ak' = NextFetch(r.raised, "stock_board_industry_name_em")
    /\ UNCHANGED <<oa, an, rq, gr, clock, tmpl_calls, mg, sn>>

\* 3. self._get_sector_rankings(overview); return overview
OvSectorRankings ==
    /\ ov.pc = "sectors"
    /\ ak.pc = "done"
    /\ LET r == _get_sector_rankings(ov.overview, ak.ret)
       IN /\ ov' = AfterStep(ov, r.raised, r.overview, "done")
          /\ ak' = NextFetch(r.raised, "-")
    /\ UNCHANGED <<oa, an, rq, gr, clock, tmpl_calls, mg, sn>>

-----------------------------------------------------------------------------
(* GeminiAnalyzer: construction *)

\* what construction meets: the validity of the two keys, and whether the
\* imports and the creation of each model or client succeed
Envs ==
    [gemini_key_valid : BOOLEAN, genai_ok : BOOLEAN, primary_ok : BOOLEAN,
     fallback_ok : BOOLEAN, openai_key_valid : BOOLEAN, openai_import_ok : BOOLEAN,
     openai_client_ok : BOOLEAN]

\* the fields as __init__ first sets them; init_log lists what construction
\* attempted, in order
NewAnalyzer(env) ==
    [constructed |-> TRUE, gemini_key_valid |-> env.gemini_key_valid,
     _model |-> "None", _current_model_name |-> "None", _using_fallback |-> FALSE,
     _use_openai |-> FALSE, _openai_client |-> "None",
     init_log |-> <<>>, born_available |-> FALSE]

IdleAn ==
    [constructed |-> FALSE, gemini_key_valid |-> FALSE,
     _model |-> "None", _current_model_name |-> "None", _using_fallback |-> FALSE,
     _use_openai |-> FALSE, _openai_client |-> "None",
     init_log |-> <<>>, born_available |-> FALSE]

Tried(a, what, ok) == [a EXCEPT !.init_log = Append(@, [what |-> what, ok |-> ok])]

\* an initialisation that raises the flag before the client is created
InitOpenaiFlagFirst(a, env) ==
    IF ~env.openai_key_valid \/ ~env.openai_import_ok THEN Tried(a, "openai", FALSE)
    ELSE IF ~env.openai_client_ok
    THEN [Tried(a, "openai", FALSE) EXCEPT !._use_openai = TRUE]
    ELSE [Tried(a, "openai", TRUE) EXCEPT
            !._openai_client = "client",
            !._current_model_name = "openai_model",
            !._use_openai = TRUE]

\* _init_openai_fallback: an invalid key or a failed import returns early, a
\* failed client creation is logged; it never raises
_init_openai_fallback(a, env) ==
    IF ~env.openai_key_valid \/ ~env.openai_import_ok \/ ~env.openai_client_ok
    THEN Tried(a, "openai", FALSE)
    ELSE [Tried(a, "openai", TRUE) EXCEPT
            !._openai_client = "client",
            !._current_model_name = "openai_model",
            !._use_openai = TRUE]

\* _init_model: the primary model, on its failure the fallback model; the outer
\* except catches every failure (of the import too), sets _model = None and
\* returns normally, so raised is never TRUE
_init_model(a, env) ==
    IF ~env.genai_ok THEN [raised |-> FALSE, an |-> [a EXCEPT !._model = "None"]]
    ELSE IF env.primary_ok
    THEN [raised |-> FALSE,
          an |-> [Tried(a, "gemini_primary", TRUE) EXCEPT
                    !._model = "primary", !._current_model_name = "primary",
                    !._using_fallback = FALSE]]
    ELSE IF env.fallback_ok
    THEN [raised |-> FALSE,
          an |-> [Tried(Tried(a, "gemini_primary", FALSE), "gemini_fallback", TRUE) EXCEPT
                    !._model = "fallback", !._current_model_name = "fallback",
                    !._using_fallback = TRUE]]
    ELSE [raised |-> FALSE,
          an |-> [Tried(Tried(a, "gemini_primary", FALSE), "gemini_fallback", FALSE) EXCEPT
                    !._model = "None"]]

\* is_available
is_available(a) == a._model # "None" \/ a._openai_client # "None"

\* __init__: with a valid Gemini key _init_model, and _init_openai_fallback only
\* if _init_model raises; without one _init_openai_fallback
__init__(env) ==
    LET a == NewAnalyzer(env)
        built == IF env.gemini_key_valid
                 THEN LET r == _init_model(a, env)
                      IN IF r.raised THEN _init_openai_fallback(r.an, env) ELSE r.an
                 ELSE _init_openai_fallback(a, env)
    IN [built EXCEPT !.born_available = is_available(built)]

\* a switch that marks the analyzer as on the fallback model before it creates
\* the model
SwitchMarksFallbackFirst(a, fallback_ok) ==
    IF fallback_ok
    THEN [switched |-> TRUE,
          an |-> [a EXCEPT !._model = "fallback", !._current_model_name = "fallback",
                           !._using_fallback = TRUE]]
    ELSE [switched |-> FALSE, an |-> [a EXCEPT !._using_fallback = TRUE]]

\* _switch_to_fallback_model, given whether the fallback model can be created:
\* the new fields and the value returned
_switch_to_fallback_model(a, fallback_ok) ==
    IF fallback_ok
    THEN [switched |-> TRUE,
          an |-> [a EXCEPT !._model = "fallback", !._current_model_name = "fallback",
                           !._using_fallback = TRUE]]
    ELSE [switched |-> FALSE, an |-> a]

\* GeminiAnalyzer(api_key)
Construct ==
    /\ ~an.constructed
    /\ \E env \in Envs : an' = __init__(env)
    /\ UNCHANGED <<ak, oa, rq, ov, gr, clock, tmpl_calls, mg, sn>>

-----------------------------------------------------------------------------
(* GeminiAnalyzer._call_api_with_retry *)

\* the number of failed calls of one request after which the switch to the
\* fallback model is tried ("repeated call failures")
SwitchAfter == 2

IdleRq ==
    [pc |-> "idle", max_retries |-> 0, base_delay |-> 0, attempt |-> 0,
     tried_fallback |-> FALSE, last_error |-> "-", trace |-> <<>>,
     start_model |-> "None", started_fallback |-> FALSE, ret |-> NoText]

\* a request that forgets that the analyzer is on the fallback model already
TriedFallbackNever(a) == FALSE

\* tried_fallback = getattr(self, '_using_fallback', False)
TriedFallbackAtStart(a) == a._using_fallback

\* the frame on entry to the Gemini loop: last_error = None, attempt = 0
EnterRq(a, max_retries, base_delay) ==
    [pc |-> "run", max_retries |-> max_retries, base_delay |-> base_delay,
     attempt |-> 0, tried_fallback |-> TriedFallbackAtStart(a), last_error |-> "-",
     trace |-> <<>>, start_model |-> a._model, started_fallback |-> a._using_fallback,
     ret |-> NoText]

\* if self._use_openai: return self._call_openai_api(prompt, generation_config)
DelegateRq(a) == [IdleRq EXCEPT !.pc = "openai", !.start_model = a._model,
                                !.started_fallback = a._using_fallback]

GeminiCallEv(model, ok) == [op |-> "call", ok |-> ok, d |-> 0, model |-> model]
GeminiSleepEv(d) == [op |-> "sleep", ok |-> FALSE, d |-> d, model |-> "-"]
SwitchEv(ok) == [op |-> "switch", ok |-> ok, d |-> 0, model |-> "fallback"]

\* if attempt > 0: time.sleep(min(base_delay * 2 ** (attempt - 1), 60)); then the
\* call of self._model.generate_content
RqCallTrace(f, model, ok) ==
    IF f.attempt > 0
    THEN f.trace \o <<GeminiSleepEv(RetryDelay(f.base_delay, f.attempt)),
                      GeminiCallEv(model, ok)>>
    ELSE Append(f.trace, GeminiCallEv(model, ok))

\* the call returned text: return it
RqSuccess(f, a, text) ==
    [f EXCEPT !.pc = "done", !.trace = RqCallTrace(f, a._model, TRUE),
              !.ret = TextValue(text)]

\* the call failed: after SwitchAfter failures of this request, and unless the
\* fallback model was tried already, _switch_to_fallback_model is called
RqFailure(f, a, e, fallback_ok) ==
    LET called == [f EXCEPT !.trace = RqCallTrace(f, a._model, FALSE),
                            !.last_error = e, !.attempt = @ + 1]
    IN IF f.attempt + 1 >= SwitchAfter /\ ~f.tried_fallback
       THEN LET sw == _switch_to_fallback_model(a, fallback_ok)
            IN [rq |-> [called EXCEPT !.trace = Append(@, SwitchEv(sw.switched)),
                                      !.tried_fallback = sw.switched],
                an |-> sw.an]
       ELSE [rq |-> called, an |-> a]

\* _call_api_with_retry(prompt, generation_config) under gemini_max_retries = n
\* and gemini_retry_delay = b
CallApiWithRetry ==
    /\ an.constructed
    /\ rq.pc \in {"idle", "done"}
    /\ \E n \in 0..MaxAttempts, b \in BaseDelays :
          IF an._use_openai
          THEN rq' = DelegateRq(an) /\ oa' = EnterOa(n, b)
          ELSE rq' = EnterRq(an, n, b) /\ oa' = IdleOa
    /\ UNCHANGED <<ak, an, ov, gr, clock, tmpl_calls, mg, sn>>

\* one iteration of the Gemini loop; without a model the call itself raises
\* AttributeError
RqAttempt ==
    /\ rq.pc = "run"
    /\ rq.attempt < rq.max_retries
    /\ \/ /\ an._model # "None"
          /\ \E t \in ProviderTexts : rq' = RqSuccess(rq, an, t)
          /\ an' = an
       \/ \E e \in Errors \cup {"empty_response"}, fallback_ok \in BOOLEAN :
            LET r == RqFailure(rq, an, IF an._model = "None" THEN "attribute_error" ELSE e,
                               fallback_ok)
            IN rq' = r.rq /\ an' = r.an
    /\ UNCHANGED <<ak, oa, ov, gr, clock, tmpl_calls, mg, sn>>

\* every Gemini attempt failed: the OpenAI-compatible client is used if there is
\* one, otherwise the last error is raised
RqExhausted ==
    /\ rq.pc = "run"
    /\ rq.attempt >= rq.max_retries
    /\ IF an._openai_client # "None"
       THEN rq' = [rq EXCEPT !.pc = "openai"] /\ oa' = EnterOa(rq.max_retries, rq.base_delay)
       ELSE /\ rq' = [rq EXCEPT !.pc = "done",
                        !.ret = TextRaise(IF rq.last_error = "-" THEN "all_retries_failed"
                                          ELSE rq.last_error)]
            /\ oa' = oa
    /\ UNCHANGED <<ak, an, ov, gr, clock, tmpl_calls, mg, sn>>

\* _call_openai_api has returned or raised: so does _call_api_with_retry
RqOpenaiReturn ==
    /\ rq.pc = "openai"
    /\ oa.pc = "done"
    /\ rq' = [rq EXCEPT !.pc = "done", !.ret = oa.ret]
    /\ UNCHANGED <<ak, oa, an, ov, gr, clock, tmpl_calls, mg, sn>>

-----------------------------------------------------------------------------
(* MarketAnalyzer.get_margin_data *)

\* max_retries = 9
MarginRetries == 9

\* time.sleep(2) in the SSE loop, time.sleep(20) in the SZSE loop
MarginDelay(loop) == IF loop = "sse" THEN 2 ELSE 20

\* the frame: the loop it is in, i of range(max_retries), and for that loop the
\* calls made, the calls that ended in the except branch, the sleeps made and the
\* seconds slept; df_sse is what the variable of that name holds
IdleMg ==
    [pc |-> "idle", loop |-> "-", i |-> 0, calls |-> 0, raised |-> 0, sleeps |-> 0,
     slept |-> 0, df_sse |-> "None", ret |-> "-"]

\* df_sse = None; for i in range(max_retries)
EnterMg == [IdleMg EXCEPT !.pc = "sse", !.loop = "sse"]

\* what a call of ak.stock_margin_sse / ak.stock_margin_szse can do: raise (a
\* returned None raises at .empty), return an empty table, return rows, or
\* return rows whose 融资余额 cell float() rejects
MarginOutcomes == {"raise", "empty", "rows", "bad_rows"}

\* except Exception as e: print(...); time.sleep(...) -- after every failed
\* attempt, the last one included
MgRaised(f) ==
    [f EXCEPT !.i = @ + 1, !.calls = @ + 1, !.raised = @ + 1, !.sleeps = @ + 1,
              !.slept = @ + MarginDelay(f.loop)]

\* the call returned an empty table: the next iteration, without a sleep
MgEmpty(f) == [f EXCEPT !.i = @ + 1, !.calls = @ + 1]

\* one iteration of the SSE loop: df_sse is assigned whenever the call returns;
\* rows end the loop (break)
MgSseStep(f, outcome) ==
    CASE outcome = "raise" -> MgRaised(f)
      [] outcome = "empty" -> [MgEmpty(f) EXCEPT !.df_sse = "empty"]
      [] OTHER -> [f EXCEPT !.pc = "after_sse", !.calls = @ + 1, !.df_sse = outcome]

\* a function that goes on to the SZSE loop whatever the SSE loop obtained
MgAfterSseLoopUnguarded(f) ==
    IF f.df_sse = "bad_rows"
    THEN [f EXCEPT !.pc = "done", !.ret = "parse_error_notice"]
    ELSE [f EXCEPT !.pc = "szse", !.loop = "szse", !.i = 0, !.calls = 0, !.raised = 0,
                   !.sleeps = 0, !.slept = 0]

\* after the SSE loop: without rows the notice is returned; rows are sorted and
\* parsed inside try/except, a failure there returns the parse notice; otherwise
\* the SZSE loop begins
MgAfterSseLoop(f) ==
    IF f.df_sse \in {"None", "empty"}
    THEN [f EXCEPT !.pc = "done", !.ret = "no_data_notice"]
    ELSE IF f.df_sse = "bad_rows"
    THEN [f EXCEPT !.pc = "done", !.ret = "parse_error_notice"]
    ELSE [f EXCEPT !.pc = "szse", !.loop = "szse", !.i = 0, !.calls = 0, !.raised = 0,
                   !.sleeps = 0, !.slept = 0]

\* one iteration of the SZSE loop: rows end it (break); rows that float() rejects
\* raise inside the loop's try
MgSzseStep(f, outcome) ==
    CASE outcome \in {"raise", "bad_rows"} -> MgRaised(f)
      [] outcome = "empty" -> MgEmpty(f)
      [] OTHER -> [f EXCEPT !.pc = "after_szse", !.calls = @ + 1]

\* after the SZSE loop: the summary is returned (szse_val_yuan is 0.0 when no
\* call returned rows)
MgAfterSzseLoop(f) == [f EXCEPT !.pc = "done", !.ret = "summary"]

\* an iteration of the SSE loop
MgSseAttempt ==
    /\ mg.pc = "sse"
    /\ mg.i < MarginRetries
    /\ \E outcome \in MarginOutcomes : mg' = MgSseStep(mg, outcome)
    /\ UNCHANGED <<ak, oa, an, rq, ov, gr, clock, tmpl_calls, sn>>

\* the SSE loop has ended, by break or by running out of range(max_retries)
MgAfterSse ==
    /\ \/ mg.pc = "after_sse"
       \/ mg.pc = "sse" /\ mg.i >= MarginRetries
    /\ mg' = MgAfterSseLoop(mg)
    /\ UNCHANGED <<ak, oa, an, rq, ov, gr, clock, tmpl_calls, sn>>

\* an iteration of the SZSE loop
MgSzseAttempt ==
    /\ mg.pc = "szse"
    /\ mg.i < MarginRetries
    /\ \E outcome \in MarginOutcomes : mg' = MgSzseStep(mg, outcome)
    /\ UNCHANGED <<ak, oa, an, rq, ov, gr, clock, tmpl_calls, sn>>

\* the SZSE loop has ended, by break or by running out of range(max_retries)
MgAfterSzse ==
    /\ \/ mg.pc = "after_szse"
       \/ mg.pc = "szse" /\ mg.i >= MarginRetries
    /\ mg' = MgAfterSzseLoop(mg)
    /\ UNCHANGED <<ak, oa, an, rq, ov, gr, clock, tmpl_calls, sn>>

-----------------------------------------------------------------------------
(* MarketAnalyzer._generate_template_review *)

\* a number as the f-string prints it; NaN prints as nan
CellText(c) == IF c.t = "num" THEN ToString(c.n) ELSE "nan"

\* "↑" if idx.change_pct > 0 else "↓" if idx.change_pct < 0 else "-"
Direction(c) ==
    IF c.t = "num" /\ c.n > 0 THEN "up" ELSE IF c.t = "num" /\ c.n < 0 THEN "down" ELSE "-"

\* abs(idx.change_pct)
AbsCell(c) == IF c.t = "num" /\ c.n < 0 THEN Num(-c.n) ELSE c

\* sh_index = next((idx for idx in overview.indices if idx.code == '000001'), None),
\* as a position in indices (0 for None)
ShIndex(indices) ==
    LET hits == {i \in 1..Len(indices) : indices[i].code = <<"000001">>}
    IN IF hits = {} THEN 0 ELSE CHOOSE i \in hits : \A j \in hits : i <= j

\* market_mood: 强势上涨 / 小幅上涨 / 小幅下跌 / 明显下跌, or 震荡整理 without sh_index
MarketMood(indices) ==
    LET i == ShIndex(indices)
    IN IF i = 0 THEN "sideways"
       ELSE LET pct == indices[i].change_pct
            IN IF pct.t = "num" /\ pct.n > 100 THEN "strong_rise"
               ELSE IF pct.t = "num" /\ pct.n > 0 THEN "slight_rise"
               ELSE IF pct.t = "num" /\ pct.n > -100 THEN "slight_fall"
               ELSE "clear_fall"

\* the lines of overview.indices[:4], from line k on
RECURSIVE IndexLines(_, _)
IndexLines(indices, k) ==
    IF k > Min(4, Len(indices)) THEN <<>>
    ELSE <<"- **", indices[k].name, "**: ", CellText(indices[k].current), " (",
           Direction(indices[k].change_pct), CellText(AbsCell(indices[k].change_pct)),
           "%)">> \o IndexLines(indices, k + 1)

\* "、".join([s['name'] for s in sectors[:3]]), from sector k on
RECURSIVE SectorNames(_, _)
SectorNames(sectors, k) ==
    IF k > Min(3, Len(sectors)) THEN <<>>
    ELSE (IF k > 1 THEN <<",">> ELSE <<>>) \o <<sectors[k].name>>
         \o SectorNames(sectors, k + 1)

\* datetime.now().strftime('%H:%M')
HourMinute(now) == <<ToString((now % 1440) \div 60), ":", ToString(now % 60)>>

\* the report text, as the sequence of its pieces; now is what datetime.now()
\* reads while the report is built; news is not used
_generate_template_review(overview, news, now) ==
    <<"## ", ToString(overview.date), " review: ", MarketMood(overview.indices)>>
    \o IndexLines(overview.indices, 1)
    \o <<"up ", ToString(overview.up_count), "down ", ToString(overview.down_count),
         "limit_up ", ToString(overview.limit_up_count),
         "limit_down ", ToString(overview.limit_down_count),
         "amount ", ToString(overview.total_amount),
         "north ", ToString(overview.north_flow), "top ">>
    \o SectorNames(overview.top_sectors, 1)
    \o <<"bottom ">>
    \o SectorNames(overview.bottom_sectors, 1)
    \o <<"time ">> \o HourMinute(now)

-----------------------------------------------------------------------------
(* MarketAnalyzer.generate_market_review *)

RECURSIVE LStrip(_)
LStrip(t) == IF t # <<>> /\ Head(t) = " " THEN LStrip(Tail(t)) ELSE t

RECURSIVE RStrip(_)
RStrip(t) == IF t # <<>> /\ t[Len(t)] = " " THEN RStrip(SubSeq(t, 1, Len(t) - 1)) ELSE t

\* str.strip()
Strip(t) == RStrip(LStrip(t))

\* the shapes a news item can have: a SearchResult (it has .title and .snippet),
\* a dict, or something with neither attribute nor .get
NewsLists == {<<>>, <<"dict", "SearchResult">>, <<"str">>}

\* _build_review_prompt raises AttributeError on the first of news[:6] that has
\* no title attribute and no get method
PromptRaises(news) == \E i \in 1..Min(6, Len(news)) : news[i] = "str"

\* a guard that only looks at whether an analyzer was given
UseTemplateWithoutAnalyzerOnly(a) == ~a.constructed

\* if not self.analyzer or not self.analyzer.is_available()
UseTemplate(a) == ~a.constructed \/ ~is_available(a)

\* what model.generate_content can do: raise, hand back no response, or a
\* response whose text may be empty
NoResponse == [kind |-> "pending", text |-> <<>>, err |-> "-"]
Raised(e) == [kind |-> "raise", text |-> <<>>, err |-> e]
NoneResponse == [kind |-> "none", text |-> <<>>, err |-> "-"]
Response(t) == [kind |-> "text", text |-> t, err |-> "-"]

GeminiResponses ==
    {Raised(e) : e \in Errors} \cup {NoneResponse} \cup {Response(t) : t \in Completions}

\* the response text taken as it came
GeminiReviewUnstripped(resp) ==
    IF resp.kind = "text" /\ resp.text # <<>> THEN resp.text ELSE <<>>

\* review = response.text.strip() if response and response.text else None
GeminiReview(resp) ==
    IF resp.kind = "text" /\ resp.text # <<>> THEN Strip(resp.text) ELSE <<>>

\* what _call_openai_api did, seen as a response
OpenaiResponse(ret) == IF ret.kind = "value" THEN Response(ret.val) ELSE Raised(ret.err)

\* review = self.analyzer._call_openai_api(prompt, generation_config)
OpenaiReview(resp) == IF resp.kind = "text" THEN resp.text ELSE <<>>

IdleGr ==
    [pc |-> "idle", news |-> <<>>, max_retries |-> 0, provider_called |-> FALSE,
     provider_calls |-> 0, gemini |-> FALSE,
     response |-> NoResponse, used_template |-> FALSE, ret |-> NoText]

\* the largest gemini_max_retries tried under generate_market_review
MaxReviewRetries == 2

\* the number of template reports a run may build
MaxTemplateCalls == 2

\* the clock stops being advanced at MaxClock
MaxClock == 2

\* a template that keeps only the three sectors it prints in each list
OverviewAfterTemplateTrimmed(overview) ==
    [overview EXCEPT !.top_sectors = SubSeq(@, 1, Min(3, Len(@))),
                     !.bottom_sectors = SubSeq(@, 1, Min(3, Len(@)))]

\* the overview object as _generate_template_review leaves it: the function
\* reads fields and takes slices ([:4], [:3]), which are copies; it assigns nothing
OverviewAfterTemplate(overview) == overview

\* the overview object as _build_review_prompt leaves it (to its end or to the
\* point where it raises): it iterates over indices and reads slices and fields
OverviewAfterPrompt(overview) == overview

\* the frame of get_market_overview's result once the template has run on it
AfterTemplate(o) == [o EXCEPT !.overview = OverviewAfterTemplate(@)]

\* a call of _generate_template_review, as the history keeps it
TemplateCall(overview, news, now) ==
    [overview |-> overview, news |-> news, now |-> now,
     out |-> _generate_template_review(overview, news, now)]

\* return self._generate_template_review(overview, news)
ReturnTemplate(f, overview, now) ==
    [f EXCEPT !.pc = "done", !.used_template = TRUE,
              !.ret = TextValue(_generate_template_review(overview, f.news, now))]

\* a try block without its except clause: what the provider call raised goes on
\* to the caller
AfterProviderLetsErrorOut(f, calls, resp, review, overview, now) ==
    LET g == [f EXCEPT !.provider_called = TRUE, !.provider_calls = calls, !.response = resp]
    IN IF resp.kind = "raise" THEN [g EXCEPT !.pc = "done", !.ret = TextRaise(resp.err)]
       ELSE IF review # <<>> THEN [g EXCEPT !.pc = "done", !.ret = TextValue(review)]
       ELSE ReturnTemplate(g, overview, now)

\* the end of the try block: if review: return review; else the template; an
\* exception of the provider call is caught: the template.  calls is the number
\* of calls the provider received for this review
AfterProvider(f, calls, resp, review, overview, now) ==
    LET g == [f EXCEPT !.provider_called = TRUE, !.provider_calls = calls, !.response = resp]
    IN IF resp.kind # "raise" /\ review # <<>>
       THEN [g EXCEPT !.pc = "done", !.ret = TextValue(review)]
       ELSE ReturnTemplate(g, overview, now)

\* generate_market_review(overview, news) without a usable analyzer
GrWithoutAnalyzer ==
    /\ gr.pc \in {"idle", "done"}
    /\ ov.pc = "done"
    /\ Len(tmpl_calls) < MaxTemplateCalls
    /\ UseTemplate(an)
    /\ \E news \in NewsLists :
          /\ gr' = ReturnTemplate([IdleGr EXCEPT !.news = news], ov.overview, clock)
          /\ tmpl_calls' = Append(tmpl_calls, TemplateCall(ov.overview, news, clock))
    /\ ov' = AfterTemplate(ov)
    /\ UNCHANGED <<ak, oa, an, rq, clock, mg, sn>>

\* generate_market_review(overview, news) with a usable analyzer:
\* _build_review_prompt begins and calls get_margin_data
GrBuildPrompt ==
    /\ gr.pc \in {"idle", "done"}
    /\ ov.pc = "done"
    /\ Len(tmpl_calls) < MaxTemplateCalls
    /\ ~UseTemplate(an)
    /\ \E news \in NewsLists : gr' = [IdleGr EXCEPT !.pc = "prompt", !.news = news]
    /\ mg' = EnterMg
    /\ UNCHANGED <<ak, oa, an, rq, ov, clock, tmpl_calls, sn>>

\* get_margin_data has returned; the loop over news[:6] raises, outside the try
\* block of generate_market_review
GrPromptRaises ==
    /\ gr.pc = "prompt"
    /\ mg.pc = "done"
    /\ PromptRaises(gr.news)
    /\ gr' = [gr EXCEPT !.pc = "done", !.ret = TextRaise("attribute_error")]
    /\ mg' = IdleMg
    /\ ov' = [ov EXCEPT !.overview = OverviewAfterPrompt(@)]
    /\ UNCHANGED <<ak, oa, an, rq, clock, tmpl_calls, sn>>

\* get_margin_data has returned and the prompt is built; on the
\* OpenAI-compatible path _call_openai_api is entered, under the configured
\* gemini_max_retries = n and gemini_retry_delay = b
GrPrompt ==
    /\ gr.pc = "prompt"
    /\ mg.pc = "done"
    /\ ~PromptRaises(gr.news)
    /\ \E n \in 0..MaxReviewRetries, b \in BaseDelays :
          /\ gr' = [gr EXCEPT !.pc = "call", !.gemini = ~an._use_openai, !.max_retries = n]
          /\ oa' = IF an._use_openai THEN EnterOa(n, b) ELSE oa
    /\ mg' = IdleMg
    /\ ov' = [ov EXCEPT !.overview = OverviewAfterPrompt(@)]
    /\ UNCHANGED <<ak, an, rq, clock, tmpl_calls, sn>>

\* the Gemini branch: self.analyzer._model.generate_content(prompt, ...)
GrGeminiCall ==
    /\ gr.pc = "call"
    /\ ~an._use_openai
    /\ \E resp \in GeminiResponses :
          gr' = AfterProvider(gr, 1, resp, GeminiReview(resp), ov.overview, clock)
    /\ tmpl_calls' = IF gr'.used_template
                     THEN Append(tmpl_calls, TemplateCall(ov.overview, gr.news, clock))
                     ELSE tmpl_calls
    /\ ov' = IF gr'.used_template THEN AfterTemplate(ov) ELSE ov
    /\ UNCHANGED <<ak, oa, an, rq, clock, mg, sn>>

\* the OpenAI-compatible branch, once _call_openai_api has returned or raised
GrOpenaiReturn ==
    /\ gr.pc = "call"
    /\ an._use_openai
    /\ oa.pc = "done"
    /\ gr' = AfterProvider(gr, NumCalls(oa.trace), OpenaiResponse(oa.ret),
                           OpenaiReview(OpenaiResponse(oa.ret)), ov.overview, clock)
    /\ tmpl_calls' = IF gr'.used_template
                     THEN Append(tmpl_calls, TemplateCall(ov.overview, gr.news, clock))
                     ELSE tmpl_calls
    /\ oa' = IdleOa
    /\ ov' = IF gr'.used_template THEN AfterTemplate(ov) ELSE ov
    /\ UNCHANGED <<ak, an, rq, clock, mg, sn>>

\* time passes
Tick ==
    /\ clock < MaxClock
    /\ clock' = clock + 1
    /\ UNCHANGED <<ak, oa, an, rq, ov, gr, tmpl_calls, mg, sn>>

-----------------------------------------------------------------------------
(* MarketAnalyzer.search_market_news *)

\* search_queries, in the order of the list: 大盘 复盘, 行情 分析 今日, 热点 板块
SearchQueries == <<"review", "analysis", "hot_sectors">>

\* the largest number of results of one query in the model (max_results=3 in
\* the call)
MaxResults == 2

\* the k-th result of a query
NewsItem(query, k) == [query |-> query, k |-> k]

\* what search_stock_news can do for a query: raise, hand back None, or a
\* response whose results hold 0..MaxResults items
SearchOutcomes(query) ==
    {[kind |-> "raise", results |-> <<>>], [kind |-> "none", results |-> <<>>]}
    \cup {[kind |-> "response", results |-> [k \in 1..n |-> NewsItem(query, k)]] :
            n \in 0..MaxResults}

IdleSn ==
    [pc |-> "idle", service |-> FALSE, log |-> <<>>, all_news |-> <<>>, ret |-> NoRet]

\* if not self.search_service: return []; else all_news = [] and the loop begins
EnterSn(service) ==
    IF ~service THEN [IdleSn EXCEPT !.pc = "done", !.ret = RetValue(<<>>)]
    ELSE [IdleSn EXCEPT !.pc = "loop", !.service = TRUE]

\* a handler inside the loop: the failed query is logged and the next one is made
SnRaisedContinues(f, query) ==
    [f EXCEPT !.log = Append(@, [query |-> query, kind |-> "raise", results |-> <<>>])]

\* except Exception as e: logger.error(...); return all_news
SnRaised(f, query) ==
    [f EXCEPT !.pc = "done", !.ret = RetValue(f.all_news),
              !.log = Append(@, [query |-> query, kind |-> "raise", results |-> <<>>])]

\* one iteration of for query in search_queries: the call, then
\* if response and response.results: all_news.extend(response.results)
SnQueryStep(f, out) ==
    LET query == SearchQueries[Len(f.log) + 1]
    IN IF out.kind = "raise" THEN SnRaised(f, query)
       ELSE [f EXCEPT !.log = Append(@, [query |-> query, kind |-> out.kind,
                                         results |-> out.results]),
                      !.all_news = IF out.kind = "response" THEN @ \o out.results ELSE @]

\* the loop has gone through search_queries: return all_news
SnAfterLoop(f) == [f EXCEPT !.pc = "done", !.ret = RetValue(f.all_news)]

\* search_market_news() is called, with or without a search service
SearchMarketNews ==
    /\ sn.pc = "idle"
    /\ \E service \in BOOLEAN : sn' = EnterSn(service)
    /\ UNCHANGED <<ak, oa, an, rq, ov, gr, clock, tmpl_calls, mg>>

SnQuery ==
    /\ sn.pc = "loop"
    /\ Len(sn.log) < Len(SearchQueries)
    /\ \E out \in SearchOutcomes(SearchQueries[Len(sn.log) + 1]) : sn' = SnQueryStep(sn, out)
    /\ UNCHANGED <<ak, oa, an, rq, ov, gr, clock, tmpl_calls, mg>>

SnEnd ==
    /\ sn.pc = "loop"
    /\ Len(sn.log) >= Len(SearchQueries)
    /\ sn' = SnAfterLoop(sn)
    /\ UNCHANGED <<ak, oa, an, rq, ov, gr, clock, tmpl_calls, mg>>

-----------------------------------------------------------------------------
(* An analyzer is constructed and then serves generation requests *)

InitAnalyzer ==
    /\ ak = IdleAk /\ oa = IdleOa /\ an = IdleAn /\ rq = IdleRq
    /\ ov = IdleOv /\ gr = IdleGr /\ clock = 0 /\ tmpl_calls = <<>> /\ mg = IdleMg /\ sn = IdleSn

NextAnalyzer ==
    \/ Construct \/ CallApiWithRetry \/ RqAttempt \/ RqExhausted \/ RqOpenaiReturn
    \/ OaAttempt \/ OaExhausted

SpecAnalyzer == InitAnalyzer /\ [][NextAnalyzer]_vars

\* construction attempted what / attempted it and it failed
Attempted(a, what) == \E i \in 1..Len(a.init_log) : a.init_log[i].what = what
AttemptFailed(a, what) ==
    \E i \in 1..Len(a.init_log) : a.init_log[i].what = what /\ ~a.init_log[i].ok

(* C8: an analyzer constructed with a valid Gemini key whose primary model     *)
(* fails to initialise attempts the fallback Gemini model; if that fails too   *)
(* it attempts the OpenAI-compatible provider; and it ends unavailable only if *)
(* that last attempt was made and failed as well.                              *)
InitFailoverChain ==
    (an.constructed /\ an.gemini_key_valid /\ AttemptFailed(an, "gemini_primary")) =>
        /\ Attempted(an, "gemini_fallback")
        /\ AttemptFailed(an, "gemini_fallback") => Attempted(an, "openai")
        /\ ~an.born_available => AttemptFailed(an, "openai")

\* the positions of rq.trace with an event of kind op
EventsOf(trace, op) == {i \in 1..Len(trace) : trace[i].op = op}

\* the failed calls among the first i events of trace
FailedCallsUpTo(trace, i) == {j \in 1..i : trace[j].op = "call" /\ ~trace[j].ok}

(* C9: within one _call_api_with_retry request that starts on the primary     *)
(* Gemini model, the failure that makes SwitchAfter failed calls is followed   *)
(* by a switch to the fallback model, at most one switch succeeds, a switch    *)
(* that succeeds leaves the analyzer on the fallback model and every later     *)
(* call of the request is made on the fallback model; a request that starts on *)
(* the fallback model never switches.                                          *)
RuntimeEscalation ==
    LET t == rq.trace
    IN /\ \A i \in EventsOf(t, "call") :
            (rq.start_model = "primary" /\ ~rq.started_fallback /\ ~t[i].ok
             /\ Cardinality(FailedCallsUpTo(t, i)) = SwitchAfter)
                => (i < Len(t) /\ t[i + 1].op = "switch")
       /\ \A i \in EventsOf(t, "switch") :
            /\ rq.start_model = "primary" => i > 1 /\ ~t[i - 1].ok
            /\ t[i].ok =>
                 /\ \A j \in EventsOf(t, "call") : j > i => t[j].model = "fallback"
                 /\ \A j \in EventsOf(t, "switch") : j > i => FALSE
                 /\ an._using_fallback /\ an._model = "fallback"
       /\ rq.started_fallback => EventsOf(t, "switch") = {}

\* a request that started on the primary model, switched, and called the
\* fallback model afterwards
RuntimeEscalationWitness ==
    /\ rq.pc = "done" /\ rq.start_model = "primary" /\ ~rq.started_fallback
    /\ \E i \in EventsOf(rq.trace, "switch") :
          /\ rq.trace[i].ok
          /\ \E j \in EventsOf(rq.trace, "call") : j > i /\ rq.trace[j].model = "fallback"
          /\ \E j \in EventsOf(rq.trace, "call") : j < i /\ rq.trace[j].model = "primary"

ProviderFlagsInSync ==
    /\ an._use_openai <=> an._openai_client # "None"
    /\ ~(an._model # "None" /\ an._openai_client # "None")
    /\ (is_available(an) /\ ~an._use_openai) => an._model # "None"

\* an analyzer on the OpenAI-compatible provider has served a request
ProviderFlagsWitness ==
    /\ an.constructed /\ an._use_openai /\ an._openai_client = "client"
    /\ an._model = "None" /\ is_available(an)
    /\ rq.pc = "done" /\ rq.ret.kind = "value"

\* this step called _switch_to_fallback_model
SwitchStep ==
    /\ rq'.trace # rq.trace /\ rq'.trace # <<>>
    /\ rq'.trace[Len(rq'.trace)].op = "switch"

(* C26: _switch_to_fallback_model returns true only with _model,               *)
(* _current_model_name and _using_fallback all set to the fallback model; if   *)
(* creating the fallback model fails it returns false, does not raise, and     *)
(* leaves _model, _current_model_name, _using_fallback, _use_openai and        *)
(* _openai_client unchanged.                                                   *)
SwitchAllOrNothing ==
    [][SwitchStep =>
         IF rq'.trace[Len(rq'.trace)].ok
         THEN /\ an'._model = "fallback" /\ an'._current_model_name = "fallback"
              /\ an'._using_fallback
              /\ an'._use_openai = an._use_openai
              /\ an'._openai_client = an._openai_client
         ELSE /\ an'._model = an._model
              /\ an'._current_model_name = an._current_model_name
              /\ an'._using_fallback = an._using_fallback
              /\ an'._use_openai = an._use_openai
              /\ an'._openai_client = an._openai_client]_vars

\* a switch was tried on an analyzer on its primary model and failed: the
\* analyzer is on its primary model still
SwitchAllOrNothingWitness ==
    /\ \E i \in EventsOf(rq.trace, "switch") : ~rq.trace[i].ok
    /\ an._model = "primary" /\ an._current_model_name = "primary"
    /\ ~an._using_fallback /\ ~an._use_openai

-----------------------------------------------------------------------------
(* get_market_overview is called once; each fetch goes through the wrapper *)

InitOverview ==
    /\ ak = IdleAk /\ oa = IdleOa /\ an = IdleAn /\ rq = IdleRq
    /\ ov = IdleOv /\ gr = IdleGr /\ clock = 0 /\ tmpl_calls = <<>> /\ mg = IdleMg /\ sn = IdleSn

NextOverview ==
    \/ GetMarketOverview \/ AkAttempt \/ AkExhausted
    \/ OvMainIndices \/ OvMarketStatistics \/ OvSectorRankings

SpecOverview == InitOverview /\ [][NextOverview]_vars

\* the names of the three provider functions, in the order of the steps
FetchOrder ==
    <<"stock_zh_index_spot_sina", "stock_zh_a_spot_em", "stock_board_industry_name_em">>

\* step k of the finished call got a table with rows / got nothing
StepGotRows(k, table) == ov.fetch_log[k].ok /\ ~IsEmpty(table)
StepFailed(k) == ~ov.fetch_log[k].ok

(* C4: get_market_overview returns a snapshot without raising whatever fetch   *)
(* steps fail; the three steps are all attempted, in order; the fields of a    *)
(* step whose fetch failed keep their defaults (empty list / 0) and the fields *)
(* of a step whose fetch returned rows are populated from those rows: an index *)
(* per main index found in the quotes, breadth counts that add up to the       *)
(* number of quoted stocks, and the min(5, sectors) best and worst sectors.    *)
PartialFailureIsolation ==
    /\ ~ov.raised
    /\ ov.pc = "done" =>
        LET o == ov.overview
            log == ov.fetch_log
        IN /\ Len(log) = 3
           /\ \A k \in 1..3 : log[k].fn = FetchOrder[k] /\ log[k].called
           /\ StepFailed(1) => o.indices = <<>>
           /\ StepFailed(2) =>
                /\ o.up_count = 0 /\ o.down_count = 0 /\ o.flat_count = 0
                /\ o.limit_up_count = 0 /\ o.limit_down_count = 0 /\ o.total_amount = 0
           /\ StepFailed(3) => o.top_sectors = <<>> /\ o.bottom_sectors = <<>>
           /\ StepGotRows(1, log[1].val) =>
                /\ o.indices # <<>>
                /\ \A i \in 1..Len(o.indices) :
                     \E r \in 1..Len(log[1].val.rows) :
                        /\ Contains(log[1].val.rows[r].code, o.indices[i].code)
                        /\ o.indices[i].current = log[1].val.rows[r].current
           /\ StepGotRows(2, log[2].val) =>
                /\ o.up_count + o.down_count + o.flat_count
                      = Len(NumericRows(log[2].val, "change_pct"))
                /\ o.up_count > 0
                /\ o.total_amount > 0
           /\ StepGotRows(3, log[3].val) =>
                /\ Len(o.top_sectors)
                      = Min(5, Len(NumericRows(log[3].val, "change_pct")))
                /\ Len(o.bottom_sectors) = Len(o.top_sectors)
                /\ o.top_sectors # <<>>

\* the index fetch succeeded, the sector fetch failed on all its attempts: the
\* snapshot has indices and no sectors
PartialFailureWitness ==
    /\ ov.pc = "done" /\ ~ov.raised
    /\ ov.fetch_log[1].ok /\ ~ov.fetch_log[3].ok
    /\ ov.fetch_log[3].called
    /\ ov.overview.indices # <<>>
    /\ ov.overview.top_sectors = <<>> /\ ov.overview.bottom_sectors = <<>>

-----------------------------------------------------------------------------
(* generate_market_review is called on a snapshot, with or without an analyzer *)

\* the snapshot the three steps assemble from what the fetches handed back
Snapshot(iret, sret, cret) ==
    LET o1 == [MarketOverview(0) EXCEPT !.indices = _get_main_indices(iret).indices]
        o2 == _get_market_statistics(o1, sret).overview
    IN _get_sector_rankings(o2, cret).overview

Snapshots ==
    {Snapshot(RetValue(IndexTable("idx_full")), RetValue(StatTable("stat_mixed")),
              RetValue(SectorTable("sec_seven"))),
     Snapshot(RetValue(IndexTable("idx_down")), RetValue(StatTable("stat_up")), RetNone),
     Snapshot(RetNone, RetNone, RetNone)}

InitReview ==
    /\ ak = IdleAk /\ oa = IdleOa /\ rq = IdleRq /\ gr = IdleGr
    /\ an \in {IdleAn} \cup {__init__(env) : env \in Envs}
    /\ \E snap \in Snapshots : ov = [IdleOv EXCEPT !.pc = "done", !.overview = snap]
    /\ clock = 0 /\ tmpl_calls = <<>> /\ mg = IdleMg /\ sn = IdleSn

NextReview ==
    \/ GrWithoutAnalyzer \/ GrBuildPrompt \/ MgSseAttempt \/ MgAfterSse \/ MgSzseAttempt
    \/ MgAfterSzse \/ GrPromptRaises \/ GrPrompt \/ GrGeminiCall \/ GrOpenaiReturn
    \/ OaAttempt \/ OaExhausted \/ Tick

SpecReview == InitReview /\ [][NextReview]_vars

\* the review returned is what the latest template call produced, and that call
\* was given the snapshot and the news of the review
ReturnedTemplate ==
    /\ gr.used_template /\ gr.ret.kind = "value"
    /\ tmpl_calls # <<>>
    /\ gr.ret.val = Last(tmpl_calls).out
    /\ Last(tmpl_calls).overview = ov.overview /\ Last(tmpl_calls).news = gr.news

(* C5: without an analyzer, or with one whose is_available() is false,         *)
(* generate_market_review(overview, news=[]) calls no generative provider,     *)
(* does not raise, and returns the non-empty text of the template generator.   *)
TemplateWithoutAnalyzer ==
    (gr.pc = "done" /\ gr.news = <<>> /\ (~an.constructed \/ ~is_available(an))) =>
        /\ ~gr.provider_called /\ oa.pc = "idle"
        /\ gr.ret.kind = "value" /\ gr.ret.val # <<>>
        /\ ReturnedTemplate

\* a constructed analyzer that is unavailable, and a review with no news served
\* from the template
TemplateWithoutAnalyzerWitness ==
    /\ gr.pc = "done" /\ gr.news = <<>>
    /\ an.constructed /\ ~is_available(an)
    /\ gr.used_template /\ gr.ret.kind = "value" /\ Len(gr.ret.val) > 10

\* the text the provider call handed to generate_market_review: on the Gemini
\* branch without the surrounding whitespace
ProviderText(f) ==
    IF f.response.kind # "text" THEN <<>>
    ELSE IF f.gemini THEN Strip(f.response.text) ELSE f.response.text

(* C6 as stated: once the provider has been called, the review is the          *)
(* provider's text if and only if the provider returned non-empty text; on an  *)
(* exception or an empty/None response it is exactly the template's output;    *)
(* it never raises.                                                            *)
ReviewIffProviderText ==
    (gr.pc = "done" /\ gr.provider_called) =>
        LET nonempty == gr.response.kind = "text" /\ gr.response.text # <<>>
        IN /\ gr.ret.kind = "value"
           /\ nonempty <=> (~gr.used_template /\ gr.ret.val = gr.response.text)
           /\ ~nonempty => ReturnedTemplate

(* C6 as amended: once the provider has been called, the review is the         *)
(* provider's text (on the Gemini branch stripped of surrounding whitespace)   *)
(* if and only if that text is non-empty (on the Gemini branch: after the      *)
(* stripping); on an exception, an empty/None response or a Gemini response of *)
(* whitespace only it is exactly the template's output; it never raises.       *)
ReviewIffStrippedText ==
    (gr.pc = "done" /\ gr.provider_called) =>
        /\ gr.ret.kind = "value"
        /\ ProviderText(gr) # <<>> <=> (~gr.used_template /\ gr.ret.val = ProviderText(gr))
        /\ ProviderText(gr) = <<>> => ReturnedTemplate

\* a Gemini response with surrounding whitespace, returned stripped
ReviewIffStrippedTextWitness ==
    /\ gr.pc = "done" /\ gr.provider_called /\ gr.gemini
    /\ gr.response = Response(<<" ", "r", " ">>)
    /\ gr.ret = TextValue(<<"r">>)

(* C7: two calls of _generate_template_review with the same snapshot and the   *)
(* same news return the same text, whenever they are made.                     *)
TemplateDeterministic ==
    \A i, j \in 1..Len(tmpl_calls) :
        (tmpl_calls[i].overview = tmpl_calls[j].overview
         /\ tmpl_calls[i].news = tmpl_calls[j].news)
            => tmpl_calls[i].out = tmpl_calls[j].out

\* the fields of a MarketOverview that hold market data
SnapshotFields ==
    {"indices", "up_count", "down_count", "flat_count", "limit_up_count",
     "limit_down_count", "total_amount", "north_flow", "top_sectors", "bottom_sectors"}

(* C23: generate_market_review, _build_review_prompt and                       *)
(* _generate_template_review leave every field of the MarketOverview they      *)
(* receive unchanged, on the success path and on every fallback path: no step  *)
(* of report generation changes a field of the snapshot.                       *)
SnapshotNotMutated ==
    [][\A field \in SnapshotFields : ov'.overview[field] = ov.overview[field]]_vars

\* two reviews of the full snapshot have ended, the first on the template after
\* the provider failed: the second template call was still given five sectors
\* in each list and the snapshot holds them still
SnapshotNotMutatedWitness ==
    /\ gr.pc = "done" /\ Len(tmpl_calls) = 2
    /\ tmpl_calls[1].overview = tmpl_calls[2].overview
    /\ ov.overview = tmpl_calls[2].overview
    /\ Len(ov.overview.top_sectors) = 5 /\ Len(ov.overview.bottom_sectors) = 5
    /\ Len(ov.overview.indices) = 2
    /\ gr.provider_called /\ gr.response.kind = "raise" /\ gr.used_template

-----------------------------------------------------------------------------
(* The two wrappers called directly: a run calls the data-fetch wrapper once  *)
(* and then the generation wrapper once, with arguments from the bounded sets *)

InitRetry ==
    /\ ak = IdleAk
    /\ oa = IdleOa
    /\ an = IdleAn
    /\ rq = IdleRq
    /\ ov = IdleOv
    /\ gr = IdleGr
    /\ clock = 0
    /\ tmpl_calls = <<>> /\ mg = IdleMg /\ sn = IdleSn

\* _call_akshare_with_retry(fn, name, attempts=n)
CallAkshare ==
    /\ ak.pc = "idle"
    /\ \E n \in 0..MaxAttempts : ak' = EnterAk("fn", n)
    /\ UNCHANGED <<oa, an, rq, ov, gr, clock, tmpl_calls, mg, sn>>

\* _call_openai_api(prompt, generation_config) under gemini_max_retries = n
CallOpenai ==
    /\ ak.pc = "done"
    /\ oa.pc = "idle"
    /\ \E n \in 0..MaxAttempts, b \in BaseDelays : oa' = EnterOa(n, b)
    /\ UNCHANGED <<ak, an, rq, ov, gr, clock, tmpl_calls, mg, sn>>

NextRetry ==
    \/ CallAkshare
    \/ AkAttempt
    \/ AkExhausted
    \/ CallOpenai
    \/ OaAttempt
    \/ OaExhausted

SpecRetry == InitRetry /\ [][NextRetry]_vars

(* C1: for an operation that fails on every call, _call_akshare_with_retry with
   attempts = N >= 1 calls fn exactly N times before it signals failure, and
   _call_openai_api with gemini_max_retries = N >= 1 makes exactly N
   chat-completion calls before it signals failure; at no moment has either made
   more than N calls. *)
RetryBound ==
    /\ NumCalls(ak.trace) <= ak.attempts
    /\ (ak.pc = "done" /\ ak.attempts >= 1 /\ AllFailed(ak.trace))
            => (NumCalls(ak.trace) = ak.attempts /\ ak.ret.kind # "value")
    /\ NumCalls(oa.trace) <= oa.max_retries
    /\ (oa.pc = "done" /\ oa.max_retries >= 1 /\ AllFailed(oa.trace))
            => (NumCalls(oa.trace) = oa.max_retries /\ oa.ret.kind = "raise")

\* both wrappers have given up after three failed calls
RetryBoundWitness ==
    /\ ak.pc = "done" /\ ak.attempts = 3 /\ AllFailed(ak.trace) /\ NumCalls(ak.trace) = 3
    /\ oa.pc = "done" /\ oa.max_retries = 3 /\ AllFailed(oa.trace) /\ NumCalls(oa.trace) = 3

\* the delay the specification states for attempt k (1-indexed)
StatedDelay(base, cap, k) == IF k = 1 THEN 0 ELSE Min(base * (2 ^ (k - 2)), cap)

(* C2: the delay slept before attempt k is 0 for k = 1 and min(base * 2^(k-2), cap)
   for k >= 2, with base = gemini_retry_delay and cap = 60 in _call_openai_api and
   base = 2 and cap = 5 in _call_akshare_with_retry. *)
BackoffGrowth ==
    /\ \A k \in 1..NumCalls(ak.trace) : DelayBefore(ak.trace, k) = StatedDelay(2, 5, k)
    /\ \A k \in 1..NumCalls(oa.trace) :
            DelayBefore(oa.trace, k) = StatedDelay(oa.base_delay, 60, k)

\* both caps have been reached: a sleep of 5 in the data-fetch wrapper and a sleep
\* of 60 in the generation wrapper, each followed by the next call
BackoffGrowthWitness ==
    /\ \E k \in 2..NumCalls(ak.trace) :
            DelayBefore(ak.trace, k) = 5 /\ 2 * (2 ^ (k - 2)) > 5
    /\ \E k \in 2..NumCalls(oa.trace) :
            DelayBefore(oa.trace, k) = 60 /\ oa.base_delay * (2 ^ (k - 2)) > 60

(* C3 as stated: when every attempt of a data-fetch operation fails,
   _call_akshare_with_retry propagates (raises) the last attempt's error to its
   caller. *)
AkPropagatesLastError ==
    (ak.pc = "done" /\ ak.attempts >= 1 /\ AllFailed(ak.trace))
        => ak.ret = RetRaise(ak.thrown)

(* C3 as amended: when every attempt fails, _call_akshare_with_retry raises
   nothing: it logs the last attempt's error and returns None to its caller. *)
AkReturnsNoneAfterLastError ==
    (ak.pc = "done" /\ ak.attempts >= 1 /\ AllFailed(ak.trace))
        => (ak.ret = RetNone /\ ak.final_log = ak.thrown /\ ak.thrown \in Errors)

\* three attempts have failed, the last one with another error than the first ones
AkReturnsNoneWitness ==
    /\ ak.pc = "done" /\ ak.attempts = 3 /\ AllFailed(ak.trace)
    /\ ak.thrown = "refused" /\ ak.ret = RetNone

-----------------------------------------------------------------------------
(* _get_market_statistics on the full-market quotes the wrapper handed back *)

\* the largest number of rows of a generated quote table
MaxRows == 3

\* the 涨跌幅 values of the generated rows, in hundredths of a percent, and cells
\* that pd.to_numeric turns into NaN
PctCells ==
    {Num(1000), Num(-995), Num(0), Num(500), Num(-1100), Num(990), Num(-990), Num(-300),
     StrCell, NoneCell}

\* a full-market table with the given 涨跌幅 column; 成交额 is 1.5e8 in each row
PctTable(pcts) ==
    [columns |-> {"change_pct", "amount"},
     rows |-> [i \in 1..Len(pcts) |-> [change_pct |-> pcts[i], amount |-> Num(150000000)]]]

\* the rows [10.0, -9.95, 0.0, 5.0, -11]
ExampleTable == PctTable(<<Num(1000), Num(-995), Num(0), Num(500), Num(-1100)>>)

\* a table without the 涨跌幅 column
AmountOnlyTable ==
    [columns |-> {"amount"}, rows |-> <<[amount |-> Num(150000000)]>>]

GeneratedStatTables ==
    UNION {{PctTable(pcts) : pcts \in [1..n -> PctCells]} : n \in 0..MaxRows}
    \cup {ExampleTable, AmountOnlyTable}

\* the wrapper has returned df (or None) for the full-market quotes, on its
\* first attempt or after failures
AkReturned(fn, ret) ==
    [IdleAk EXCEPT !.pc = "done", !.fn = fn, !.attempts = FetchAttempts, !.attempt = 1,
                   !.trace = <<CallEv(ret.kind = "value")>>, !.ret = ret]

\* get_market_overview has come to its second step
InitStatistics ==
    /\ oa = IdleOa /\ an = IdleAn /\ rq = IdleRq /\ gr = IdleGr
    /\ clock = 0 /\ tmpl_calls = <<>> /\ mg = IdleMg /\ sn = IdleSn
    /\ ov = [IdleOv EXCEPT !.pc = "statistics"]
    /\ \E df \in GeneratedStatTables : ak = AkReturned("stock_zh_a_spot_em", RetValue(df))

NextStatistics == OvMarketStatistics

SpecStatistics == InitStatistics /\ [][NextStatistics]_vars

\* the 涨跌幅 values of the table the statistics step worked on: the numbers, in
\* row order (rows whose value is no number dropped)
StepPcts ==
    LET df == Last(ov.fetch_log).val
    IN IF "change_pct" \notin df.columns THEN <<>>
       ELSE LET nums == SelectSeq(df.rows, LAMBDA row : row.change_pct.t = "num")
            IN [i \in 1..Len(nums) |-> nums[i].change_pct.n]

\* how many of the values satisfy each of the five conditions
NumPositive(pcts) == Cardinality({i \in 1..Len(pcts) : pcts[i] > 0})
NumNegative(pcts) == Cardinality({i \in 1..Len(pcts) : pcts[i] < 0})
NumZero(pcts) == Cardinality({i \in 1..Len(pcts) : pcts[i] = 0})
NumLimitUp(pcts) == Cardinality({i \in 1..Len(pcts) : pcts[i] >= 990})
NumLimitDown(pcts) == Cardinality({i \in 1..Len(pcts) : pcts[i] <= -990})

StatisticsDone == ov.pc = "sectors" /\ Len(ov.fetch_log) = 1

(* C11: _get_market_statistics sets up_count, down_count and flat_count to the *)
(* number of rows with change_pct > 0, < 0 and = 0, and limit_up_count and     *)
(* limit_down_count to the number of rows with change_pct >= 9.9 and <= -9.9;  *)
(* for the rows [10.0, -9.95, 0.0, 5.0, -11] that is 2, 2, 1, 1 and 2.         *)
BreadthClassification ==
    StatisticsDone =>
        LET o == ov.overview
        IN /\ ~ov.raised
           /\ o.up_count = NumPositive(StepPcts)
           /\ o.down_count = NumNegative(StepPcts)
           /\ o.flat_count = NumZero(StepPcts)
           /\ o.limit_up_count = NumLimitUp(StepPcts)
           /\ o.limit_down_count = NumLimitDown(StepPcts)
           /\ Last(ov.fetch_log).val = ExampleTable =>
                /\ o.up_count = 2 /\ o.down_count = 2 /\ o.flat_count = 1
                /\ o.limit_up_count = 1 /\ o.limit_down_count = 2

\* the step has run on the rows [10.0, -9.95, 0.0, 5.0, -11]
BreadthClassificationWitness ==
    /\ StatisticsDone
    /\ Last(ov.fetch_log).val = ExampleTable
    /\ ov.overview.up_count = 2 /\ ov.overview.limit_down_count = 2

(* C20: after _get_market_statistics, limit_down_count <= down_count and       *)
(* limit_up_count <= up_count.                                                 *)
LimitCountsAreSubsets ==
    /\ ov.overview.limit_down_count <= ov.overview.down_count
    /\ ov.overview.limit_up_count <= ov.overview.up_count

\* a table with a falling stock that is not limit-down and one that is
LimitCountsWitness ==
    /\ StatisticsDone
    /\ ov.overview.limit_down_count = 1 /\ ov.overview.down_count = 2
    /\ ov.overview.limit_up_count = 1 /\ ov.overview.up_count = 1

-----------------------------------------------------------------------------
(* _get_sector_rankings on the sector quotes the wrapper handed back *)

\* the largest number of rows of a generated sector table
MaxSectors == 6

\* the 涨跌幅 values of the generated sectors, in hundredths of a percent: -3.3%,
\* -2.2%, ... in steps of 1.1%
SectorPcts == {(k - 4) * 110 : k \in 1..MaxSectors}

\* a sector table with the given 涨跌幅 column, the sectors named by their row
SectorPctTable(pcts) ==
    [columns |-> {"name", "change_pct"},
     rows |-> [i \in 1..Len(pcts) |-> SectorRow(ToString(i), Num(pcts[i]))]]

\* the 涨跌幅 values of the sectors of a table with ties
TiedPcts == {-110, 0, 110}

\* the tables of MaxSectors sectors that share three 涨跌幅 values: in each some
\* value occurs more than once
TiedSectorTables == {SectorPctTable(pcts) : pcts \in [1..MaxSectors -> TiedPcts]}

\* the tables of up to MaxSectors sectors, no two with the same 涨跌幅, in every
\* order, the seven-sector table, and the tables with ties
GeneratedSectorTables ==
    TiedSectorTables \cup
    UNION {{SectorPctTable(pcts) :
                pcts \in {f \in [1..n -> SectorPcts] :
                            \A i, j \in 1..n : i # j => f[i] # f[j]}} :
           n \in 0..MaxSectors}
    \cup {SectorTable("sec_seven")}

\* get_market_overview has come to its third step
InitSectors ==
    /\ oa = IdleOa /\ an = IdleAn /\ rq = IdleRq /\ gr = IdleGr
    /\ clock = 0 /\ tmpl_calls = <<>> /\ mg = IdleMg /\ sn = IdleSn
    /\ ov = [IdleOv EXCEPT !.pc = "sectors"]
    /\ \E df \in GeneratedSectorTables :
          ak = AkReturned("stock_board_industry_name_em", RetValue(df))

NextSectors == OvSectorRankings

SpecSectors == InitSectors /\ [][NextSectors]_vars

SectorsDone == ov.pc = "done" /\ Len(ov.fetch_log) = 1

\* every row has a number as 涨跌幅 and no two rows the same one
DistinctNumeric(rows) ==
    /\ \A i \in 1..Len(rows) : rows[i].change_pct.t = "num"
    /\ \A i, j \in 1..Len(rows) : i # j => rows[i].change_pct.n # rows[j].change_pct.n

\* ranked holds exactly the rows of a row set of the table
IsSelection(ranked, rows) ==
    \A k \in 1..Len(ranked) :
        \E i \in 1..Len(rows) :
            rows[i].name = ranked[k].name /\ rows[i].change_pct.n = ranked[k].change_pct

\* the rows that ranked leaves out
LeftOut(ranked, rows) ==
    {i \in 1..Len(rows) : \A k \in 1..Len(ranked) : rows[i].name # ranked[k].name}

(* C12: for a sector table with n rows of distinct numeric change_pct,         *)
(* top_sectors holds exactly the min(5, n) highest rows in descending order    *)
(* and bottom_sectors exactly the min(5, n) lowest rows in ascending order;    *)
(* for n = 7 each list has 5 entries.                                          *)
SectorRankingOrder ==
    (SectorsDone /\ DistinctNumeric(Last(ov.fetch_log).val.rows)) =>
        LET rows == Last(ov.fetch_log).val.rows
            top == ov.overview.top_sectors
            bottom == ov.overview.bottom_sectors
        IN /\ Len(top) = Min(5, Len(rows)) /\ Len(bottom) = Min(5, Len(rows))
           /\ Len(rows) = 7 => Len(top) = 5 /\ Len(bottom) = 5
           /\ IsSelection(top, rows) /\ IsSelection(bottom, rows)
           /\ \A k \in 1..(Len(top) - 1) : top[k].change_pct > top[k + 1].change_pct
           /\ \A k \in 1..(Len(bottom) - 1) : bottom[k].change_pct < bottom[k + 1].change_pct
           /\ \A i \in LeftOut(top, rows), k \in 1..Len(top) :
                 rows[i].change_pct.n < top[k].change_pct
           /\ \A i \in LeftOut(bottom, rows), k \in 1..Len(bottom) :
                 rows[i].change_pct.n > bottom[k].change_pct

\* the row (its position in rows) a ranked entry was taken from; sector names
\* are unique in the tables
PositionOf(entry, rows) == CHOOSE i \in 1..Len(rows) : rows[i].name = entry.name

\* ranked is ordered by value (descending or ascending) and, among equal values,
\* by position in rows; a row left out does not come before a row taken
StableRanking(ranked, rows, largest) ==
    LET before(v, i, w, j) ==
            (IF largest THEN v > w ELSE v < w) \/ (v = w /\ i < j)
    IN /\ \A k \in 1..(Len(ranked) - 1) :
             before(ranked[k].change_pct, PositionOf(ranked[k], rows),
                    ranked[k + 1].change_pct, PositionOf(ranked[k + 1], rows))
       /\ \A i \in LeftOut(ranked, rows), k \in 1..Len(ranked) :
             before(ranked[k].change_pct, PositionOf(ranked[k], rows),
                    rows[i].change_pct.n, i)

(* C21: when several sector rows have the same change_pct, top_sectors and     *)
(* bottom_sectors select and order the tied rows by the row order of the       *)
(* table: the earlier row comes first and is preferred at the cut-off of 5.    *)
SectorTiesByRowOrder ==
    SectorsDone =>
        LET rows == NumericRows(Last(ov.fetch_log).val, "change_pct")
        IN /\ Len(ov.overview.top_sectors) = Min(5, Len(rows))
           /\ Len(ov.overview.bottom_sectors) = Min(5, Len(rows))
           /\ IsSelection(ov.overview.top_sectors, rows)
           /\ IsSelection(ov.overview.bottom_sectors, rows)
           /\ StableRanking(ov.overview.top_sectors, rows, TRUE)
           /\ StableRanking(ov.overview.bottom_sectors, rows, FALSE)

\* six sectors, the last five with the same 涨跌幅 and the first one below it:
\* the top list is rows 2..6 in that order; the bottom list begins with row 1,
\* goes on with rows 2..5 and leaves row 6 out
SectorTiesWitness ==
    /\ SectorsDone
    /\ LET rows == Last(ov.fetch_log).val.rows
       IN /\ Len(rows) = 6 /\ rows[1].change_pct.n = -110
          /\ \A i \in 2..6 : rows[i].change_pct.n = 0
    /\ [k \in 1..5 |-> ov.overview.top_sectors[k].name] = <<"2", "3", "4", "5", "6">>
    /\ [k \in 1..5 |-> ov.overview.bottom_sectors[k].name] = <<"1", "2", "3", "4", "5">>

\* seven sectors: five in each list, the two lists not the same sectors
SectorRankingWitness ==
    /\ SectorsDone
    /\ Len(Last(ov.fetch_log).val.rows) = 7
    /\ DistinctNumeric(Last(ov.fetch_log).val.rows)
    /\ Len(ov.overview.top_sectors) = 5 /\ Len(ov.overview.bottom_sectors) = 5
    /\ ov.overview.top_sectors[1].name = "chip"
    /\ ov.overview.bottom_sectors[1].name = "coal"
    /\ LeftOut(ov.overview.top_sectors, Last(ov.fetch_log).val.rows) # {}

-----------------------------------------------------------------------------
(* A fetch step on a table that lacks some of its columns *)

\* table without the columns in drop
WithoutColumns(table, drop) ==
    [columns |-> table.columns \ drop,
     rows |-> [i \in 1..Len(table.rows) |->
                 [c \in table.columns \ drop |-> table.rows[i][c]]]]

\* the provider tables that have rows, per step
FullTables(fn) == {df \in FnValues(fn) : ~IsEmpty(df)}

\* the step of get_market_overview that calls fn
StepOf(fn) ==
    CASE fn = "stock_zh_index_spot_sina" -> "indices"
      [] fn = "stock_zh_a_spot_em" -> "statistics"
      [] OTHER -> "sectors"

\* get_market_overview has come to one of its steps, and the wrapper has handed
\* back a table that lacks some columns
InitColumns ==
    /\ oa = IdleOa /\ an = IdleAn /\ rq = IdleRq /\ gr = IdleGr
    /\ clock = 0 /\ tmpl_calls = <<>> /\ mg = IdleMg /\ sn = IdleSn
    /\ \E fn \in {"stock_zh_index_spot_sina", "stock_zh_a_spot_em",
                  "stock_board_industry_name_em"} :
          /\ ov = [IdleOv EXCEPT !.pc = StepOf(fn)]
          /\ \E df \in FullTables(fn) : \E drop \in SUBSET df.columns :
                ak = AkReturned(fn, RetValue(WithoutColumns(df, drop)))

NextColumns == OvMainIndices \/ OvMarketStatistics \/ OvSectorRankings

SpecColumns == InitColumns /\ [][NextColumns]_vars

\* the step that was begun has run on table
StepRanOn(fn, table) ==
    /\ Len(ov.fetch_log) = 1
    /\ ov.fetch_log[1].fn = fn /\ ov.fetch_log[1].val = table

\* the overview a step gives on the whole table
WholeIndices(df) == _get_main_indices(RetValue(df)).indices
WholeStatistics(df) == _get_market_statistics(MarketOverview(0), RetValue(df)).overview

\* the five breadth counts are at their default
BreadthAtDefault(o) ==
    /\ o.up_count = 0 /\ o.down_count = 0 /\ o.flat_count = 0
    /\ o.limit_up_count = 0 /\ o.limit_down_count = 0

\* the five breadth counts of o are those of w
SameBreadth(o, w) ==
    /\ o.up_count = w.up_count /\ o.down_count = w.down_count
    /\ o.flat_count = w.flat_count /\ o.limit_up_count = w.limit_up_count
    /\ o.limit_down_count = w.limit_down_count

(* C22: a provider table that lacks an expected column never makes a fetch     *)
(* step raise; a missing quote column in the index table yields 0 for that     *)
(* MarketIndex field (the other fields as the table gives them); a missing     *)
(* change-percentage column leaves the breadth counts, or the sector lists, at *)
(* their defaults while total_amount is still populated; a missing amount      *)
(* column leaves total_amount at 0 while the counts are still populated.       *)
MissingColumnsTolerated ==
    /\ ~ov.raised
    /\ \A df \in FullTables("stock_zh_index_spot_sina") :
         \A drop \in SUBSET (df.columns \ {"code"}) :
            StepRanOn("stock_zh_index_spot_sina", WithoutColumns(df, drop)) =>
               /\ Len(ov.overview.indices) = Len(WholeIndices(df))
               /\ \A k \in 1..Len(ov.overview.indices) : \A col \in QuoteColumns :
                     ov.overview.indices[k][col] =
                        (IF col \in drop THEN Num(0) ELSE WholeIndices(df)[k][col])
    /\ \A df \in FullTables("stock_zh_a_spot_em") : \A drop \in SUBSET df.columns :
         StepRanOn("stock_zh_a_spot_em", WithoutColumns(df, drop)) =>
            /\ IF "change_pct" \in drop THEN BreadthAtDefault(ov.overview)
               ELSE SameBreadth(ov.overview, WholeStatistics(df))
            /\ ov.overview.total_amount =
                  (IF "amount" \in drop THEN 0 ELSE WholeStatistics(df).total_amount)
    /\ \A df \in FullTables("stock_board_industry_name_em") :
         \A drop \in SUBSET df.columns :
            (/\ StepRanOn("stock_board_industry_name_em", WithoutColumns(df, drop))
             /\ "change_pct" \in drop)
            => (ov.overview.top_sectors = <<>> /\ ov.overview.bottom_sectors = <<>>)

\* the statistics step has run on a table without the 涨跌幅 column: the counts
\* are at their defaults and total_amount is 10 (亿)
MissingColumnsWitness ==
    /\ StepRanOn("stock_zh_a_spot_em",
                 WithoutColumns(StatTable("stat_mixed"), {"change_pct"}))
    /\ ov.pc = "sectors"
    /\ BreadthAtDefault(ov.overview)
    /\ ov.overview.total_amount = 10

-----------------------------------------------------------------------------
(* The retry loops one at a time: a run enters one of the data-fetch wrapper,  *)
(* the OpenAI-compatible call and get_margin_data, and follows it to its end   *)

InitLoops ==
    /\ ak = IdleAk /\ oa = IdleOa /\ an = IdleAn /\ rq = IdleRq
    /\ ov = IdleOv /\ gr = IdleGr /\ clock = 0 /\ tmpl_calls = <<>> /\ mg = IdleMg /\ sn = IdleSn

NoLoopEntered == ak.pc = "idle" /\ oa.pc = "idle" /\ mg.pc = "idle"

\* _call_akshare_with_retry(fn, name, attempts=n)
LoopAkshare ==
    /\ NoLoopEntered
    /\ \E n \in 0..MaxAttempts : ak' = EnterAk("fn", n)
    /\ UNCHANGED <<oa, an, rq, ov, gr, clock, tmpl_calls, mg, sn>>

\* _call_openai_api(prompt, generation_config) under gemini_max_retries = n and
\* gemini_retry_delay = b
LoopOpenai ==
    /\ NoLoopEntered
    /\ \E n \in 0..MaxAttempts, b \in BaseDelays : oa' = EnterOa(n, b)
    /\ UNCHANGED <<ak, an, rq, ov, gr, clock, tmpl_calls, mg, sn>>

\* get_margin_data()
LoopMargin ==
    /\ NoLoopEntered
    /\ mg' = EnterMg
    /\ UNCHANGED <<ak, oa, an, rq, ov, gr, clock, tmpl_calls, sn>>

NextLoops ==
    \/ LoopAkshare \/ AkAttempt \/ AkExhausted
    \/ LoopOpenai \/ OaAttempt \/ OaExhausted
    \/ LoopMargin \/ MgSseAttempt \/ MgAfterSse \/ MgSzseAttempt \/ MgAfterSzse

SpecLoops == InitLoops /\ [][NextLoops]_vars

\* a loop of get_margin_data has made all its attempts and each of them failed
MarginLoopAllFailed == mg.calls = MarginRetries /\ mg.raised = MarginRetries

(* C16: every retry loop sleeps only after a failed attempt that is not the    *)
(* last one: when all N attempts fail there are exactly N-1 sleeps and the     *)
(* loop ends on the failed call, not on a sleep; for _call_akshare_with_retry, *)
(* for _call_openai_api and for the SSE and SZSE loops of get_margin_data.     *)
SleepsOnlyBetweenAttempts ==
    /\ (ak.pc = "done" /\ ak.attempts >= 1 /\ AllFailed(ak.trace)) =>
            /\ Len(SleepsOf(ak.trace)) = ak.attempts - 1
            /\ Last(ak.trace).op = "call"
    /\ (oa.pc = "done" /\ oa.max_retries >= 1 /\ AllFailed(oa.trace)) =>
            /\ Len(SleepsOf(oa.trace)) = oa.max_retries - 1
            /\ Last(oa.trace).op = "call"
    /\ MarginLoopAllFailed => mg.sleeps = MarginRetries - 1

(* the part of C16 that is about the two wrappers *)
WrapperSleepsOnlyBetweenAttempts ==
    /\ (ak.pc = "done" /\ ak.attempts >= 1 /\ AllFailed(ak.trace)) =>
            /\ Len(SleepsOf(ak.trace)) = ak.attempts - 1
            /\ Last(ak.trace).op = "call"
    /\ (oa.pc = "done" /\ oa.max_retries >= 1 /\ AllFailed(oa.trace)) =>
            /\ Len(SleepsOf(oa.trace)) = oa.max_retries - 1
            /\ Last(oa.trace).op = "call"

\* the trace of k calls of which the first k - 1 failed, with the stated sleep
\* before each call but the first
RECURSIVE ExpectedTrace(_, _, _)
ExpectedTrace(base_delay, k, last_ok) ==
    IF k = 0 THEN <<>>
    ELSE ExpectedTrace(base_delay, k - 1, FALSE)
         \o (IF k > 1 THEN <<SleepEv(Min(base_delay * (2 ^ (k - 2)), 60))>> ELSE <<>>)
         \o <<CallEv(last_ok)>>

\* _call_openai_api has ended after max_retries >= 1 attempts that all failed
OaAllFailed == oa.pc = "done" /\ oa.max_retries >= 1 /\ AllFailed(oa.trace)

(* C17: when all gemini_max_retries (>= 1) attempts of _call_openai_api fail,  *)
(* the call raises the error of the final attempt; it never returns text after *)
(* exhausting its attempts and never raises before the final attempt.          *)
OpenaiTerminalFailure ==
    /\ OaAllFailed =>
         /\ Len(oa.log) = oa.max_retries
         /\ oa.ret = TextRaise(oa.log[oa.max_retries].err)
    /\ (oa.max_retries >= 1 /\ oa.ret.kind = "raise") => NumCalls(oa.trace) = oa.max_retries
    /\ (oa.max_retries >= 1 /\ oa.ret.kind = "value") =>
         (~AllFailed(oa.trace) /\ NumCalls(oa.trace) <= oa.max_retries)

\* three attempts failed with three different errors; the last one is raised
OpenaiTerminalFailureWitness ==
    /\ OaAllFailed /\ oa.max_retries = 3
    /\ oa.log[1].err = "timeout" /\ oa.log[2].err = "http_429" /\ oa.log[3].err = "refused"
    /\ oa.ret = TextRaise("refused")

\* the attempts (by position in oa.log) that ended with an empty completion
EmptyAttempts == {k \in 1..Len(oa.log) : oa.log[k].err = "empty_response"}

(* C18: in _call_openai_api an empty or missing completion counts as a failed  *)
(* attempt: the call is recorded as failed, the next attempt follows after the *)
(* same backoff as after an error, empty text is never returned, and if every  *)
(* attempt returns an empty completion the call raises.                        *)
EmptyCompletionIsFailure ==
    /\ \A k \in EmptyAttempts :
          /\ ~oa.trace[CallPos(oa.trace, k)].ok
          /\ k < NumCalls(oa.trace) =>
                DelayBefore(oa.trace, k + 1) = Min(oa.base_delay * (2 ^ (k - 1)), 60)
          /\ k < oa.max_retries => (oa.pc = "run" \/ k < NumCalls(oa.trace))
    /\ oa.ret.kind = "value" => oa.ret.val # <<>>
    /\ (OaAllFailed /\ Cardinality(EmptyAttempts) = oa.max_retries) =>
          oa.ret = TextRaise("empty_response")

\* three empty completions in a row, with the backoff between them, then the raise
EmptyCompletionWitness ==
    /\ OaAllFailed /\ oa.max_retries = 3 /\ oa.base_delay = 5
    /\ EmptyAttempts = {1, 2, 3}
    /\ DelayBefore(oa.trace, 2) = 5 /\ DelayBefore(oa.trace, 3) = 10
    /\ oa.ret.kind = "raise"

(* C19: in _call_openai_api the class of an error (rate limit or not) changes  *)
(* the wording of the warning only: the calls made, the delays slept and the   *)
(* way the call ends are those of the pattern of failures alone, whatever the  *)
(* classes of the errors were.                                                 *)
RateLimitClassIsCosmetic ==
    LET k == NumCalls(oa.trace)
        last_ok == k > 0 /\ oa.trace[Len(oa.trace)].ok
    IN /\ oa.trace = ExpectedTrace(oa.base_delay, k, last_ok)
       /\ oa.pc = "run" => (~last_ok /\ k = oa.attempt /\ Len(oa.log) = k)
       /\ oa.pc = "done" =>
            /\ last_ok \/ k = oa.max_retries
            /\ oa.ret.kind = (IF last_ok THEN "value" ELSE "raise")
       /\ \A i \in 1..Len(oa.log) :
            oa.log[i].wording = (IF oa.log[i].err = "http_429" THEN "rate_limit" ELSE "failed")

\* a call that met a rate-limit error and then another error, retried both and
\* raised in the end
RateLimitClassWitness ==
    /\ OaAllFailed /\ oa.max_retries = 3 /\ oa.base_delay = 40
    /\ oa.log[1].wording = "rate_limit" /\ oa.log[2].wording = "failed"
    /\ oa.log[3].wording = "rate_limit"
    /\ SleepsOf(oa.trace) = <<SleepEv(40), SleepEv(60)>>

-----------------------------------------------------------------------------
(* run_daily_review: the overview is fetched, the news searched, the review    *)
(* generated, once                                                             *)

InitDaily ==
    /\ ak = IdleAk /\ oa = IdleOa /\ rq = IdleRq /\ gr = IdleGr /\ ov = IdleOv
    /\ an \in {IdleAn} \cup {__init__(env) : env \in Envs}
    /\ clock = 0 /\ tmpl_calls = <<>> /\ mg = IdleMg /\ sn = IdleSn

\* 2. news = self.search_market_news(); 3. self.generate_market_review(overview,
\* news), here without a usable analyzer
DailyWithoutAnalyzer == gr.pc = "idle" /\ GrWithoutAnalyzer

\* 2. news = self.search_market_news(); 3. self.generate_market_review(overview,
\* news), here with a usable analyzer
DailyBuildPrompt == gr.pc = "idle" /\ GrBuildPrompt

NextDaily ==
    \/ GetMarketOverview \/ AkAttempt \/ AkExhausted
    \/ OvMainIndices \/ OvMarketStatistics \/ OvSectorRankings
    \/ DailyWithoutAnalyzer \/ DailyBuildPrompt
    \/ MgSseAttempt \/ MgAfterSse \/ MgSzseAttempt \/ MgAfterSzse
    \/ GrPromptRaises \/ GrPrompt \/ GrGeminiCall \/ GrOpenaiReturn
    \/ OaAttempt \/ OaExhausted

SpecDaily == InitDaily /\ [][NextDaily]_vars

\* the program is sequential and keeps running: a step that can be taken is taken
SpecDailyFair == SpecDaily /\ WF_vars(NextDaily)

\* run_daily_review has ended, with a report or with an exception
DailyEnded == (ov.pc = "done" /\ ov.raised) \/ gr.pc = "done"

(* C13: no exception escapes run_daily_review: whatever the data provider, the *)
(* news search and the generative provider do, and whatever the shape of the   *)
(* news items, the call returns report text and does not raise.                *)
NoExceptionEscapes == ~ov.raised /\ (gr.pc = "done" => gr.ret.kind = "value")

(* C14: in generate_market_review a failing generative-provider call is        *)
(* retried up to the configured attempt limit before the template is used,     *)
(* whether the provider is Gemini or the OpenAI-compatible one.                *)
UniformProviderRetry ==
    (/\ gr.pc = "done" /\ gr.provider_called /\ gr.max_retries >= 1
     /\ gr.response.kind = "raise")
    => (gr.used_template /\ gr.provider_calls = gr.max_retries)

\* every external call of the run failed on every attempt: the three fetches
\* handed back None, the search gave no news, the provider (if one was called)
\* raised
AllExternalCallsFailed ==
    /\ Len(ov.fetch_log) = 3 /\ \A k \in 1..3 : ~ov.fetch_log[k].ok
    /\ gr.news = <<>>
    /\ gr.provider_called => gr.response.kind = "raise"

\* no retry loop has made more than its configured number of attempts
LoopsWithinLimits ==
    /\ NumCalls(ak.trace) <= ak.attempts
    /\ NumCalls(oa.trace) <= oa.max_retries
    /\ mg.calls <= MarginRetries /\ mg.i <= MarginRetries
    /\ gr.provider_calls <= (IF gr.gemini THEN 1 ELSE gr.max_retries)

(* C15: run_daily_review always terminates; each retry loop it enters (the     *)
(* three fetches, the margin-data loops, the OpenAI-compatible call) ends      *)
(* after a success or at most its configured number of attempts, and a report  *)
(* is returned even if every external call fails on every attempt.             *)
DailyReviewTerminates ==
    /\ <>DailyEnded
    /\ [](LoopsWithinLimits /\ ((DailyEnded /\ AllExternalCallsFailed) => gr.ret.kind = "value"))

\* a run in which every fetch used its nine attempts in vain,
\* the provider failed on each attempt, and the template report
\* was returned
DailyReviewTerminatesWitness ==
    /\ DailyEnded /\ AllExternalCallsFailed
    /\ \A k \in 1..3 : ov.fetch_log[k].called
    /\ gr.provider_called /\ gr.provider_calls = MaxReviewRetries
    /\ gr.used_template /\ gr.ret.kind = "value"

-----------------------------------------------------------------------------
(* search_market_news is called once *)

InitSearch ==
    /\ ak = IdleAk /\ oa = IdleOa /\ an = IdleAn /\ rq = IdleRq /\ ov = IdleOv
    /\ gr = IdleGr /\ clock = 0 /\ tmpl_calls = <<>> /\ mg = IdleMg /\ sn = IdleSn

NextSearch == SearchMarketNews \/ SnQuery \/ SnEnd

SpecSearch == InitSearch /\ [][NextSearch]_vars

\* the results of the queries logged, in the order the queries were made
RECURSIVE ResultsInOrder(_)
ResultsInOrder(log) ==
    IF log = <<>> THEN <<>>
    ELSE ResultsInOrder(SubSeq(log, 1, Len(log) - 1)) \o log[Len(log)].results

(* C24: search_market_news never raises; without a search service it returns   *)
(* an empty list and issues no query; with one it issues at most 3 queries in  *)
(* fixed order, and if a query raises, the remaining queries are skipped and   *)
(* the results of the earlier queries are returned in query order.             *)
SearchNeverRaises ==
    /\ sn.ret.kind # "raise"
    /\ (sn.pc = "done" /\ ~sn.service) => (sn.ret = RetValue(<<>>) /\ sn.log = <<>>)
    /\ Len(sn.log) <= 3
    /\ \A k \in 1..Len(sn.log) : sn.log[k].query = SearchQueries[k]
    /\ \A k \in 1..Len(sn.log) :
          sn.log[k].kind = "raise" => (k = Len(sn.log) /\ sn.pc = "done")
    /\ sn.pc = "done" => sn.ret = RetValue(ResultsInOrder(sn.log))
    /\ (sn.pc = "done" /\ sn.service) =>
          (Len(sn.log) = 3 \/ sn.log[Len(sn.log)].kind = "raise")

\* the first query gave two results, the second raised: the third was not made
\* and the two results are returned
SearchNeverRaisesWitness ==
    /\ sn.pc = "done" /\ sn.service
    /\ Len(sn.log) = 2 /\ sn.log[1].kind = "response" /\ sn.log[2].kind = "raise"
    /\ sn.ret = RetValue(<<NewsItem("review", 1), NewsItem("review", 2)>>)

\* the positions in a trace of the calls that succeeded
SuccessesIn(trace) == {i \in 1..Len(trace) : trace[i].op = "call" /\ trace[i].ok}

(* C27: _call_akshare_with_retry stops at the first success: if the operation  *)
(* first succeeds on call j <= attempts, exactly j calls and j-1 sleeps occur  *)
(* and the value of that call is returned; a successful result is never        *)
(* discarded, retried or followed by a sleep.                                  *)
StopsAtFirstSuccess ==
    /\ \A i \in SuccessesIn(ak.trace) :
          /\ i = Len(ak.trace)
          /\ ak.pc = "done" /\ ak.ret.kind = "value"
          /\ NumCalls(ak.trace) <= ak.attempts
          /\ Len(SleepsOf(ak.trace)) = NumCalls(ak.trace) - 1
          /\ \A k \in 1..(NumCalls(ak.trace) - 1) : ~ak.trace[CallPos(ak.trace, k)].ok
    /\ ak.ret.kind = "value" => SuccessesIn(ak.trace) # {}

\* the third of four attempts succeeded: three calls, two sleeps, its value
\* returned
StopsAtFirstSuccessWitness ==
    /\ ak.pc = "done" /\ ak.attempts = 4
    /\ NumCalls(ak.trace) = 3 /\ Len(SleepsOf(ak.trace)) = 2
    /\ SuccessesIn(ak.trace) = {Len(ak.trace)}
    /\ ak.ret = RetValue("v2")

\* the mood the four thresholds give for a change_pct (in hundredths of a percent)
MoodOf(pct) ==
    IF pct > 100 THEN "strong_rise"
    ELSE IF pct > 0 THEN "slight_rise"
    ELSE IF pct > -100 THEN "slight_fall"
    ELSE "clear_fall"

\* the positions in indices of the Shanghai Composite index, by its
\* MAIN_INDICES code
ShanghaiIn(indices) == {i \in 1..Len(indices) : indices[i].code = MAIN_INDICES[1].code}

(* C28: for every snapshot assembled by get_market_overview that contains the  *)
(* Shanghai Composite index (MAIN_INDICES code 'sh000001'), the mood of the    *)
(* template report is chosen from that index's change_pct (> 1 strong rise,    *)
(* > 0 slight rise, > -1 slight fall, otherwise clear fall); the neutral mood  *)
(* is produced only when that index is absent from the snapshot.               *)
MoodFollowsShanghai ==
    \A k \in 1..Len(tmpl_calls) :
        LET indices == tmpl_calls[k].overview.indices
            mood == tmpl_calls[k].out[4]
        IN IF ShanghaiIn(indices) = {} THEN mood = "sideways"
           ELSE \E i \in ShanghaiIn(indices) : mood = MoodOf(indices[i].change_pct.n)

\* the texts get_margin_data can return
MarginTexts == {"no_data_notice", "parse_error_notice", "summary"}

(* C29: get_margin_data makes at most 9 SSE calls and at most 9 SZSE calls,    *)
(* queries the SZSE endpoint only after some SSE call has returned non-empty   *)
(* data, and when no SSE attempt yields data it returns the 'data unavailable' *)
(* text with zero SZSE calls; in every case it returns text and does not       *)
(* raise.                                                                      *)
MarginCallsOrderedAndBounded ==
    /\ mg.calls <= 9 /\ mg.i <= 9
    /\ mg.loop = "szse" => mg.df_sse = "rows"
    /\ mg.pc = "done" => mg.ret \in MarginTexts
    /\ (mg.pc = "done" /\ mg.df_sse \in {"None", "empty"}) =>
          (mg.ret = "no_data_notice" /\ mg.loop = "sse")
    /\ (mg.pc = "done" /\ mg.loop = "szse") => mg.ret = "summary"

\* nine SSE calls, some raising and some returning an empty table: the notice is
\* returned and the SZSE endpoint was never queried
MarginNoDataWitness ==
    /\ mg.pc = "done" /\ mg.loop = "sse" /\ mg.calls = 9
    /\ mg.raised \in 1..8 /\ mg.df_sse = "empty"
    /\ mg.ret = "no_data_notice"

\* the rows of the table the statistics step worked on whose 涨跌幅 is a number
RowsWithNumber(df) == {i \in 1..Len(df.rows) : df.rows[i].change_pct.t = "num"}

\* the table with only those rows
OnlyRowsWithNumber(df) ==
    [df EXCEPT !.rows = SelectSeq(df.rows, LAMBDA row : row.change_pct.t = "num")]

(* C30: after _get_market_statistics on a table that has the change-percentage *)
(* column, up_count + down_count + flat_count equals the number of rows whose  *)
(* change_pct is numeric; a row whose change_pct is missing or non-numeric is  *)
(* counted in none of up, down, flat, limit_up and limit_down (the five counts *)
(* are those of the table without such rows).                                  *)
BreadthPartitionsNumericRows ==
    (StatisticsDone /\ "change_pct" \in Last(ov.fetch_log).val.columns) =>
        LET df == Last(ov.fetch_log).val
            o == ov.overview
        IN /\ o.up_count + o.down_count + o.flat_count = Cardinality(RowsWithNumber(df))
           /\ o.limit_up_count <= Cardinality(RowsWithNumber(df))
           /\ o.limit_down_count <= Cardinality(RowsWithNumber(df))
           /\ o.up_count = NumPositive(StepPcts) /\ o.down_count = NumNegative(StepPcts)
           /\ o.flat_count = NumZero(StepPcts)
           /\ RowsWithNumber(df) = {} => BreadthAtDefault(o)
           /\ RowsWithNumber(df) # {} =>
                 SameBreadth(o, WholeStatistics(OnlyRowsWithNumber(df)))

\* three rows, one with a text and one with nothing as 涨跌幅: one row counted
BreadthPartitionWitness ==
    /\ StatisticsDone
    /\ LET df == Last(ov.fetch_log).val
       IN /\ "change_pct" \in df.columns /\ Len(df.rows) = 3
          /\ df.rows[1].change_pct = StrCell /\ df.rows[2].change_pct = NoneCell
          /\ df.rows[3].change_pct = Num(-300)
    /\ ov.overview.up_count = 0 /\ ov.overview.down_count = 1 /\ ov.overview.flat_count = 0
    /\ ov.overview.limit_up_count = 0 /\ ov.overview.limit_down_count = 0

=============================================================================
